---- MODULE Spec2Model ----
(***************************************************************************)
(* SkillBridge backend: the booking lifecycle (createBooking,              *)
(* updateBookingStatus and its status-in-body variant), the booking reads, *)
(* the review handler (createReview), registration and the user profile,   *)
(* the category, admin and tutor handlers, and the role guards, over the   *)
(* seeded database.  Every handler is split at its awaits that touch the   *)
(* database after the guards: the read and the guards that follow it run   *)
(* without yielding, each later database call is a step of its own.        *)
(***************************************************************************)
EXTENDS Integers, Sequences, FiniteSets, Bags, TLC

VARIABLES
    now,          \* the server clock (new Date())
    booking,      \* Booking table: id -> row
    reviews,      \* Review table: rows in creation order
    tutorProfile, \* TutorProfile table: userId -> [rating, reviewCount]
    pending,      \* handlers suspended at an await: a bag of continuations
    resp,         \* the HTTP response being sent, NoResponse when none is
    created201,   \* bookingId -> number of createReview requests answered 201
    user,         \* User table: id -> [email, role, status, password]
    token,        \* userId -> the email inside the bearer token the user holds
    category      \* Category table: id -> [name, slug, tutors]

vars == <<now, booking, reviews, tutorProfile, pending, resp, created201,
          user, token, category>>

\* ------------------------------------------------------------------ bounds
MaxTime == 4          \* the clock runs over SeedNow..MaxTime
MaxNewBookings == 1   \* bookings created on top of the five seeded ones
MaxInFlight == 2      \* handlers that may be suspended at the same time
MaxNotes == 4         \* longest notes value (in tokens) a handler may write

\* ------------------------------------------------------------------ users
Anonymous == "anonymous"   \* a request without a valid bearer token
Ghost == "ghost"           \* a well-formed id no row has

Users == {"admin", "student1", "student2", "student3",
          "tutor1", "tutor2", "tutor3", "tutor4"}

\* bcrypt.hash(password, 10): the stored value is not the password, and
\* comparePassword(password, hash) tells whether hash was made from password
hashPassword(password) == <<"bcrypt", password>>
comparePassword(password, hash) == hash = hashPassword(password)

\* every seeded user has the password 'Admin123!'
SeedPassword == hashPassword("Admin123!")

SeedUsers ==
    ("admin" :> [email |-> "admin@skillbridge.com", role |-> "ADMIN",
                 status |-> "ACTIVE", password |-> SeedPassword]) @@
    ("student1" :> [email |-> "john.doe@example.com", role |-> "STUDENT",
                    status |-> "ACTIVE", password |-> SeedPassword]) @@
    ("student2" :> [email |-> "jane.smith@example.com", role |-> "STUDENT",
                    status |-> "ACTIVE", password |-> SeedPassword]) @@
    ("student3" :> [email |-> "mike.wilson@example.com", role |-> "STUDENT",
                    status |-> "ACTIVE", password |-> SeedPassword]) @@
    ("tutor1" :> [email |-> "sarah.anderson@example.com", role |-> "TUTOR",
                  status |-> "ACTIVE", password |-> SeedPassword]) @@
    ("tutor2" :> [email |-> "david.chen@example.com", role |-> "TUTOR",
                  status |-> "ACTIVE", password |-> SeedPassword]) @@
    ("tutor3" :> [email |-> "maria.garcia@example.com", role |-> "TUTOR",
                  status |-> "ACTIVE", password |-> SeedPassword]) @@
    ("tutor4" :> [email |-> "emma.taylor@example.com", role |-> "TUTOR",
                  status |-> "ACTIVE", password |-> SeedPassword])

\* req.user.role and the status column of a user that exists
role(u) == user[u].role
userStatus(u) == user[u].status

Null == <<>>   \* a NULL / undefined text value; the empty string is <<"">>

\* a / b as the exact quotient in lowest terms
RECURSIVE Gcd(_, _)
Gcd(a, b) == IF b = 0 THEN a ELSE Gcd(b, a % b)

Div(a, b) == <<a \div Gcd(a, b), b \div Gcd(a, b)>>

\* ------------------------------------------------------------------- seed
SeedBookings ==
    (1 :> [studentId |-> "student1", tutorId |-> "tutor1", dateTime |-> 0,
           duration |-> 60, status |-> "COMPLETED", notes |-> <<"Help with calculus homework">>]) @@
    (2 :> [studentId |-> "student2", tutorId |-> "tutor2", dateTime |-> 1,
           duration |-> 90, status |-> "COMPLETED", notes |-> <<"Introduction to React hooks">>]) @@
    (3 :> [studentId |-> "student1", tutorId |-> "tutor3", dateTime |-> 2,
           duration |-> 60, status |-> "COMPLETED", notes |-> <<"Spanish conversation practice">>]) @@
    (4 :> [studentId |-> "student3", tutorId |-> "tutor1", dateTime |-> 4,
           duration |-> 60, status |-> "CONFIRMED", notes |-> <<"Statistics exam preparation">>]) @@
    (5 :> [studentId |-> "student2", tutorId |-> "tutor4", dateTime |-> 5,
           duration |-> 60, status |-> "CONFIRMED", notes |-> <<"Piano lesson - beginner level">>])

SeedReviews ==
    << [bookingId |-> 1, studentId |-> "student1", tutorId |-> "tutor1", rating |-> 5],
       [bookingId |-> 2, studentId |-> "student2", tutorId |-> "tutor2", rating |-> 5],
       [bookingId |-> 3, studentId |-> "student1", tutorId |-> "tutor3", rating |-> 4] >>

SeedTutorProfiles ==
    ("tutor1" :> [rating |-> Div(5, 1), reviewCount |-> 1]) @@
    ("tutor2" :> [rating |-> Div(5, 1), reviewCount |-> 1]) @@
    ("tutor3" :> [rating |-> Div(4, 1), reviewCount |-> 1]) @@
    ("tutor4" :> [rating |-> Div(5, 1), reviewCount |-> 0])

SeedCategories ==
    (1 :> [name |-> "Mathematics", slug |-> "mathematics", tutors |-> {"tutor1"}]) @@
    (2 :> [name |-> "Science", slug |-> "science", tutors |-> {}]) @@
    (3 :> [name |-> "Programming", slug |-> "programming", tutors |-> {"tutor2"}]) @@
    (4 :> [name |-> "Languages", slug |-> "languages", tutors |-> {"tutor3"}]) @@
    (5 :> [name |-> "Music", slug |-> "music", tutors |-> {"tutor4"}]) @@
    (6 :> [name |-> "Art", slug |-> "art", tutors |-> {}]) @@
    (7 :> [name |-> "Business", slug |-> "business", tutors |-> {}])

SeedNow == 3   \* after the three completed sessions, before the two upcoming ones

\* ------------------------------------------------------------ bookkeeping
BookingIds == 1..(5 + MaxNewBookings)

InFlight == BagToSet(pending)
AllIdle == pending = EmptyBag

\* a handler reaches an await, resumes and reaches the next one, or returns
Suspend(p) ==
    /\ BagCardinality(pending) < MaxInFlight
    /\ pending' = pending (+) SetToBag({p})
Goes(p, q) == pending' = (pending (-) SetToBag({p})) (+) SetToBag({q})
Returns(p) == pending' = pending (-) SetToBag({p})

\* a number of a request body is a fraction in lowest terms: 2 is <<2, 1>>,
\* 2.5 is <<5, 2>>; a request without a rating carries NoRating
NoRating == <<0, 1>>

\* the numbers of getStats that rest on the tables of the model
NoStats ==
    [totalUsers |-> 0, totalTutors |-> 0, totalStudents |-> 0,
     totalBookings |-> 0, activeTutors |-> 0,
     bookingsByStatus |-> [pending |-> 0, confirmed |-> 0, completed |-> 0,
                           cancelled |-> 0]]

\* the payload of a token that is sent; NoToken when the response has none
NoToken == [userId |-> "", email |-> "", role |-> ""]

NoResponse ==
    [op |-> "none", user |-> "", bid |-> 0, action |-> "", rating |-> NoRating,
     code |-> 0, message |-> "", bookings |-> {}, target |-> "", users |-> {},
     stats |-> NoStats, password |-> "", token |-> NoToken, reason |-> Null,
     count |-> 0, avgRating |-> <<0, 1>>, categories |-> Null]

\* res.status(code).json({ message }), with the request it answers: the
\* handler, the requester, the booking id and the action or rating of the body
Respond(op, u, bid, action, rating, r) ==
    resp' = [NoResponse EXCEPT !.op = op, !.user = u, !.bid = bid,
                               !.action = action, !.rating = rating,
                               !.code = r.code, !.message = r.message]

\* res.status(code).json(...) of a read: bookings are the ids of the rows sent
RespondWith(op, u, bid, query, r, bookings) ==
    resp' = [NoResponse EXCEPT !.op = op, !.user = u, !.bid = bid,
                               !.action = query, !.code = r.code,
                               !.message = r.message, !.bookings = bookings]

\* the response to a request about a user or an email (target), with the
\* value of the body (value) and the user rows sent
RespondTo(op, u, target, value, r, users) ==
    resp' = [NoResponse EXCEPT !.op = op, !.user = u, !.target = target,
                               !.action = value, !.code = r.code,
                               !.message = r.message, !.users = users]

\* the response to a request whose body holds a password (password), with
\* the token that is sent
RespondAccount(op, u, target, value, password, r, users, tk) ==
    resp' = [NoResponse EXCEPT !.op = op, !.user = u, !.target = target,
                               !.action = value, !.password = password,
                               !.code = r.code, !.message = r.message,
                               !.users = users, !.token = tk]

Answer(code, message) == [code |-> code, message |-> message]
Continue == Answer(0, "")

Init ==
    /\ now = SeedNow
    /\ booking = SeedBookings
    /\ reviews = SeedReviews
    /\ tutorProfile = SeedTutorProfiles
    /\ pending = EmptyBag
    /\ resp = NoResponse
    /\ created201 = [b \in BookingIds |-> 0]
    /\ user = SeedUsers
    /\ token = [u \in DOMAIN SeedUsers |-> SeedUsers[u].email]
    /\ category = SeedCategories

\* the response leaves the server; handlers run between responses
Deliver ==
    /\ resp # NoResponse
    /\ resp' = NoResponse
    /\ UNCHANGED <<user, token, category, now, booking, reviews, tutorProfile, pending, created201>>

\* the clock only moves forward
Tick ==
    /\ now < MaxTime
    /\ now' = now + 1
    /\ UNCHANGED <<booking, reviews, tutorProfile, pending, resp, created201,
                   user, token, category>>

\* ------------------------------------------------------------- middleware
\* 0 stands for next(): the request goes on to the handler
roleGuard(allowedRoles, u) ==
    IF u = Anonymous THEN Answer(401, "Authentication required")
    ELSE IF role(u) \notin allowedRoles THEN Answer(403, "Access denied")
    ELSE Continue

\* mutant: the guard of another route mounted
isStudentOrTutor(u) == roleGuard({"STUDENT", "TUTOR"}, u)
isStudent(u) == roleGuard({"STUDENT"}, u)

\* ---------------------------------------------------------- createBooking
Requesters == {Anonymous, "admin", "student1", "student3", "tutor1"}
NewBookingTimes == {4}
NewBookingNotes == {Null, <<"hi">>}
TutorIdInputs == {"tutor1", "student1", Ghost}

hasTutorProfile(u) == u \in DOMAIN tutorProfile

\* the status a booking gets when prisma.booking.create names none
defaultStatus == "PENDING"

\* duration: z.number().positive().default(60), for a body that names none
defaultDuration == 60

\* mutant: the check of the tutor's status left out
createBookingCodeNoBanCheck(tutorId) ==
    IF tutorId \notin DOMAIN user \/ role(tutorId) # "TUTOR"
       \/ ~hasTutorProfile(tutorId)
    THEN Answer(404, "Tutor not found")
    ELSE Answer(201, "Booking request sent! Awaiting tutor approval.")

\* mutant: any user that is not BANNED accepted as the tutor
createBookingCodeAnyUser(tutorId) ==
    IF tutorId \notin DOMAIN user THEN Answer(404, "Tutor not found")
    ELSE IF userStatus(tutorId) = "BANNED"
    THEN Answer(400, "This tutor is not available")
    ELSE Answer(201, "Booking request sent! Awaiting tutor approval.")

createBookingCode(tutorId) ==
    IF tutorId \notin DOMAIN user \/ role(tutorId) # "TUTOR"
       \/ ~hasTutorProfile(tutorId)
    THEN Answer(404, "Tutor not found")
    ELSE IF userStatus(tutorId) = "BANNED"
    THEN Answer(400, "This tutor is not available")
    ELSE Answer(201, "Booking request sent! Awaiting tutor approval.")

createBooking(u, tutorId, dateTime, notes) ==
    LET guard == isStudent(u)
        r == IF guard # Continue THEN guard ELSE createBookingCode(tutorId)
        code == r.code
        id == Cardinality(DOMAIN booking) + 1
    IN  /\ code = 201 => id \in BookingIds
        /\ booking' = IF code = 201
                      THEN booking @@ (id :> [studentId |-> u, tutorId |-> tutorId,
                                              dateTime |-> dateTime,
                                              duration |-> defaultDuration,
                                              status |-> defaultStatus,
                                              notes |-> notes])
                      ELSE booking
        /\ resp' = [NoResponse EXCEPT !.op = "createBooking", !.user = u,
                                      !.bid = IF code = 201 THEN id ELSE 0,
                                      !.target = tutorId, !.code = r.code,
                                      !.message = r.message]
        /\ UNCHANGED <<user, token, category, now, reviews, tutorProfile, pending, created201>>

\* ------------------------------------------- getBookings, getBookingById
Readers == {Anonymous, "admin", "student1", "student3", "tutor1", "tutor2"}
StatusQueries == {"", "completed", "CONFIRMED"}

toUpperCase(text) ==
    CASE text = "completed" -> "COMPLETED"
      [] OTHER -> text

\* the where clause: by role, and by the status of the query when one is given
bookingsWhere(u, status) ==
    {b \in DOMAIN booking :
        /\ role(u) = "STUDENT" => booking[b].studentId = u
        /\ role(u) = "TUTOR" => booking[b].tutorId = u
        /\ status # "" => booking[b].status = toUpperCase(status)}

getBookings(u, status) ==
    /\ IF u = Anonymous
       THEN RespondWith("getBookings", u, 0, status, Answer(401, "Not authenticated"), {})
       ELSE RespondWith("getBookings", u, 0, status, Answer(200, ""),
                        bookingsWhere(u, status))
    /\ UNCHANGED <<user, token, category, now, booking, reviews, tutorProfile, pending, created201>>

\* mutant: every tutor may read every booking
hasAccessAsAnyTutor(bk, u) ==
    role(u) \in {"ADMIN", "TUTOR"} \/ bk.studentId = u \/ bk.tutorId = u
hasAccess(bk, u) == role(u) = "ADMIN" \/ bk.studentId = u \/ bk.tutorId = u

getBookingByIdCode(u, id) ==
    IF u = Anonymous THEN Answer(401, "Not authenticated")
    ELSE IF id \notin DOMAIN booking THEN Answer(404, "Booking not found")
    ELSE IF ~hasAccess(booking[id], u)
    THEN Answer(403, "You do not have access to this booking")
    ELSE Answer(200, "")

getBookingById(u, id) ==
    LET r == getBookingByIdCode(u, id)
    IN  /\ RespondWith("getBookingById", u, id, "", r,
                       IF r.code = 200 THEN {id} ELSE {})
        /\ UNCHANGED <<user, token, category, now, booking, reviews, tutorProfile, pending, created201>>

\* ---------------------------------------------------- updateBookingStatus
ActionInputs == {"approve", "reject", "cancel", "complete", "archive"}
ReasonInputs == {Null, <<"">>, <<"sick">>}
BookingIdInputs == {0, 1, 4} \cup (6..(5 + MaxNewBookings))

updateBookingStatusSchema(action) ==
    action \in {"approve", "reject", "cancel", "complete"}

\* `${booking.notes ? booking.notes + '\n\n' : ''}[TAG]\n${reason}` when a
\* reason is given, else booking.notes; both NULL and '' are falsy
truthy(text) == text # Null /\ text # <<"">>

approveAllowedFrom(status) == status = "PENDING"
rejectAllowedFrom(status) == status = "PENDING"

\* mutant: the reason written in place of the notes
replaceByReason(notes, tag, reason) ==
    IF truthy(reason) THEN <<tag>> \o reason ELSE notes
appendReason(notes, tag, reason) ==
    IF truthy(reason)
    THEN (IF truthy(notes) THEN notes \o <<"\n\n">> ELSE <<>>) \o <<tag>> \o reason
    ELSE notes

\* mutant: cancel refused only for bookings that are already cancelled
cancelAllowedFromNotCancelled(status) == status # "CANCELLED"
cancelAllowedFrom(status) == status \in {"PENDING", "CONFIRMED"}

completeAllowedFrom(status) == status = "CONFIRMED"

\* mutant: the comparison of the clock with booking.dateTime turned round
afterScheduledTime(t, dateTime) == t > dateTime
beforeScheduledTime(t, dateTime) == t < dateTime

\* mutant: either participant may approve
mayApproveAsParticipant(bk, u) == bk.studentId = u \/ bk.tutorId = u
mayApprove(bk, u) == bk.tutorId = u

mayReject(bk, u) == bk.tutorId = u

\* mutant: only the student may cancel
mayCancelStudentOnly(bk, u) == bk.studentId = u
mayCancel(bk, u) == bk.studentId = u \/ bk.tutorId = u

\* mutant: an administrator may complete any booking
mayCompleteAsAdmin(bk, u) == bk.tutorId = u \/ role(u) = "ADMIN"
mayComplete(bk, u) == bk.tutorId = u

Refuse(code, message) ==
    [code |-> code, message |-> message,
     status |-> "", setNotes |-> FALSE, notes |-> Null]
Proceed(status, message, setNotes, notes) ==
    [code |-> 0, message |-> message,
     status |-> status, setNotes |-> setNotes, notes |-> notes]

\* the switch over action: the response code of an early return, or code 0
\* and the updateData the handler goes on to write
statusSwitch(bk, u, action, reason, t) ==
    CASE action = "approve" ->
            IF ~mayApprove(bk, u)
            THEN Refuse(403, "Only the tutor can approve bookings")
            ELSE IF ~approveAllowedFrom(bk.status)
            THEN Refuse(400, "Cannot approve booking with status")
            ELSE Proceed("CONFIRMED", "Booking approved successfully", FALSE, Null)
      [] action = "reject" ->
            IF ~mayReject(bk, u)
            THEN Refuse(403, "Only the tutor can reject bookings")
            ELSE IF ~rejectAllowedFrom(bk.status)
            THEN Refuse(400, "Cannot reject booking with status")
            ELSE Proceed("REJECTED", "Booking rejected", TRUE,
                         appendReason(bk.notes, "[REJECTION REASON]\n", reason))
      [] action = "cancel" ->
            IF ~mayCancel(bk, u)
            THEN Refuse(403, "Only the student or tutor can cancel this booking")
            ELSE IF ~cancelAllowedFrom(bk.status)
            THEN Refuse(400, "Cannot cancel booking with status")
            ELSE Proceed("CANCELLED", "Booking cancelled successfully", TRUE,
                         appendReason(bk.notes, "[CANCELLATION REASON]\n", reason))
      [] action = "complete" ->
            IF ~mayComplete(bk, u)
            THEN Refuse(403, "Only the tutor can mark bookings as completed")
            ELSE IF ~completeAllowedFrom(bk.status)
            THEN Refuse(400, "Cannot complete booking with status")
            ELSE IF beforeScheduledTime(t, bk.dateTime)
            THEN Refuse(400, "Cannot mark booking as completed before the scheduled time")
            ELSE Proceed("COMPLETED", "Booking marked as completed", FALSE, Null)
      [] OTHER -> Refuse(400, "Invalid action")

\* the response of updateBookingStatus, with the action and the reason of
\* the body it answers
RespondStatus(u, id, action, reason, r) ==
    resp' = [NoResponse EXCEPT !.op = "updateBookingStatus", !.user = u,
                               !.bid = id, !.action = action, !.reason = reason,
                               !.code = r.code, !.message = r.message]

\* everything up to the await on prisma.booking.update
updateBookingStatusCode(u, id, action, reason) ==
    IF u = Anonymous THEN Refuse(401, "Not authenticated")
    ELSE IF ~updateBookingStatusSchema(action)
    THEN Refuse(400, "Action must be approve, reject, cancel, or complete")
    ELSE IF id \notin DOMAIN booking THEN Refuse(404, "Booking not found")
    ELSE statusSwitch(booking[id], u, action, reason, now)

updateBookingStatus(u, id, action, reason) ==
    LET d == updateBookingStatusCode(u, id, action, reason)
    IN  IF d.code # 0
        THEN /\ RespondStatus(u, id, action, reason, d)
             /\ UNCHANGED <<user, token, category, now, booking, reviews, tutorProfile, pending, created201>>
        ELSE /\ d.setNotes => Len(d.notes) <= MaxNotes
             /\ Suspend([op |-> "updateBookingStatus", pc |-> "update", user |-> u,
                          bid |-> id, action |-> action,
                          read |-> booking[id].status, message |-> d.message,
                          status |-> d.status, setNotes |-> d.setNotes,
                          notes |-> d.notes, rating |-> 0, tutorId |-> "",
                          avgRating |-> <<0, 1>>, length |-> 0,
                          email |-> "", role |-> "", name |-> "", slug |-> "",
                          password |-> "", reason |-> reason])
             /\ UNCHANGED <<user, token, category, now, booking, reviews, tutorProfile, resp, created201>>

\* prisma.booking.update({ where: { id }, data: updateData }), then 200
bookingUpdate(p) ==
        /\ p.op = "updateBookingStatus"
        /\ booking' = [booking EXCEPT
                         ![p.bid].status = p.status,
                         ![p.bid].notes = IF p.setNotes THEN p.notes ELSE @]
        /\ Returns(p)
        /\ RespondStatus(p.user, p.bid, p.action, p.reason, Answer(200, p.message))
        /\ UNCHANGED <<user, token, category, now, reviews, tutorProfile, created201>>

\* ------------------------------ updateBookingStatus, status in the body
StatusInputs == {"PENDING", "CONFIRMED", "COMPLETED", "CANCELLED"}

\* everything up to the await on prisma.booking.update; 0 stands for going on
updateBookingStatusInBodyCode(u, id, status) ==
    IF u = Anonymous THEN Answer(401, "Not authenticated")
    ELSE IF status \notin {"CONFIRMED", "COMPLETED", "CANCELLED"}
    THEN Answer(400, "Invalid status value")
    ELSE IF id \notin DOMAIN booking THEN Answer(404, "Booking not found")
    ELSE IF status = "CANCELLED" /\ booking[id].studentId # u
    THEN Answer(403, "Only students can cancel bookings")
    ELSE IF status = "COMPLETED" /\ booking[id].tutorId # u
    THEN Answer(403, "Only tutors can mark bookings as completed")
    ELSE Continue

updateBookingStatusInBody(u, id, status) ==
    LET c == updateBookingStatusInBodyCode(u, id, status)
    IN  IF c # Continue
        THEN /\ Respond("updateBookingStatusInBody", u, id, status, NoRating, c)
             /\ UNCHANGED <<user, token, category, now, booking, reviews,
                            tutorProfile, pending, created201>>
        ELSE /\ Suspend([op |-> "updateBookingStatusInBody", pc |-> "update",
                          user |-> u, bid |-> id, action |-> status,
                          read |-> booking[id].status, message |-> "",
                          status |-> status, setNotes |-> FALSE, notes |-> Null,
                          rating |-> 0, tutorId |-> "", avgRating |-> <<0, 1>>,
                          length |-> 0, email |-> "", role |-> "", name |-> "", slug |-> "",
                          password |-> "", reason |-> Null])
             /\ UNCHANGED <<user, token, category, now, booking, reviews,
                            tutorProfile, resp, created201>>

\* prisma.booking.update({ where: { id }, data: { status } }), then 200
bookingUpdateInBody(p) ==
        /\ p.op = "updateBookingStatusInBody"
        /\ booking' = [booking EXCEPT ![p.bid].status = p.status]
        /\ Returns(p)
        /\ Respond("updateBookingStatusInBody", p.user, p.bid, p.action, NoRating,
                   Answer(200, "Booking status updated successfully"))
        /\ UNCHANGED <<user, token, category, now, reviews, tutorProfile,
                       created201>>

\* ----------------------------------------------------------- createReview
RatingInputs == {<<0, 1>>, <<2, 1>>, <<6, 1>>, <<5, 2>>}

isInt(rating) == rating[2] = 1

\* mutant: the upper limit of the rating left out
createReviewSchemaNoMax(rating) == isInt(rating) /\ rating[1] >= 1
\* z.number().int().min(1).max(5)
createReviewSchema(rating) == isInt(rating) /\ rating[1] >= 1 /\ rating[1] <= 5

reviewOf(bid) == {i \in DOMAIN reviews : reviews[i].bookingId = bid}

\* mutant: the check for an existing review left out
reviewCheckOmitted(bid) == FALSE
\* if (booking.review), booking read with include: { review: true }
alreadyReviewed(bid) == reviewOf(bid) # {}

\* mutant: the owner of the booking looked at last
createReviewCodeOwnerLast(u, bid, rating) ==
    IF isStudent(u) # Continue THEN isStudent(u)
    ELSE IF ~createReviewSchema(rating) THEN Answer(400, "Validation Error")
    ELSE IF bid \notin DOMAIN booking THEN Answer(404, "Booking not found")
    ELSE IF booking[bid].status # "COMPLETED"
    THEN Answer(400, "You can only review completed bookings")
    ELSE IF alreadyReviewed(bid)
    THEN Answer(400, "You have already reviewed this booking")
    ELSE IF booking[bid].studentId # u
    THEN Answer(403, "You can only review your own bookings")
    ELSE Continue

\* everything up to the await on prisma.review.create; 0 stands for going on
createReviewCode(u, bid, rating) ==
    IF isStudent(u) # Continue THEN isStudent(u)
    ELSE IF ~createReviewSchema(rating) THEN Answer(400, "Validation Error")
    ELSE IF bid \notin DOMAIN booking THEN Answer(404, "Booking not found")
    ELSE IF booking[bid].studentId # u
    THEN Answer(403, "You can only review your own bookings")
    ELSE IF booking[bid].status # "COMPLETED"
    THEN Answer(400, "You can only review completed bookings")
    ELSE IF alreadyReviewed(bid)
    THEN Answer(400, "You have already reviewed this booking")
    ELSE Continue

createReview(u, bid, rating) ==
    LET r == createReviewCode(u, bid, rating)
    IN  IF r # Continue
        THEN /\ Respond("createReview", u, bid, "", rating, r)
             /\ UNCHANGED <<user, token, category, now, booking, reviews, tutorProfile, pending, created201>>
        ELSE /\ Suspend([op |-> "createReview", pc |-> "create", user |-> u,
                          bid |-> bid, action |-> "",
                          read |-> booking[bid].status, message |-> "",
                          status |-> "", setNotes |-> FALSE, notes |-> Null,
                          rating |-> rating[1], tutorId |-> booking[bid].tutorId,
                          avgRating |-> <<0, 1>>, length |-> 0,
                          email |-> "", role |-> "", name |-> "", slug |-> "",
                          password |-> "", reason |-> Null])
             /\ UNCHANGED <<user, token, category, now, booking, reviews, tutorProfile, resp, created201>>

\* Review.bookingId is unique (the relation Booking.review is one-to-one)
bookingIdIsFree(bid) == reviewOf(bid) = {}

\* mutant: a duplicate is skipped without an error and the handler goes on
reviewCreateSkippingDuplicate(p) ==
        /\ p.op = "createReview" /\ p.pc = "create"
        /\ reviews' = IF bookingIdIsFree(p.bid)
                      THEN Append(reviews, [bookingId |-> p.bid, studentId |-> p.user,
                                            tutorId |-> p.tutorId, rating |-> p.rating])
                      ELSE reviews
        /\ Goes(p, [p EXCEPT !.pc = "findMany"])
        /\ UNCHANGED <<user, token, category, now, booking, tutorProfile, resp, created201>>

\* prisma.review.create: a unique-constraint error is thrown into the catch
\* block, which answers 500
reviewCreate(p) ==
        /\ p.op = "createReview" /\ p.pc = "create"
        /\ IF bookingIdIsFree(p.bid)
           THEN /\ reviews' = Append(reviews, [bookingId |-> p.bid, studentId |-> p.user,
                                               tutorId |-> p.tutorId, rating |-> p.rating])
                /\ Goes(p, [p EXCEPT !.pc = "findMany"])
                /\ UNCHANGED resp
           ELSE /\ Returns(p)
                /\ Respond("createReview", p.user, p.bid, "", <<p.rating, 1>>,
                           Answer(500, "Failed to create review"))
                /\ UNCHANGED reviews
        /\ UNCHANGED <<user, token, category, now, booking, tutorProfile, created201>>

RECURSIVE sumRatings(_)
sumRatings(rs) == IF rs = <<>> THEN 0 ELSE Head(rs).rating + sumRatings(Tail(rs))

tutorReviewsOf(tutorId) == SelectSeq(reviews, LAMBDA r : r.tutorId = tutorId)

\* mutant: the quotient truncated to a whole number
averageTruncated(rs) ==
    IF Len(rs) = 0 THEN <<0, 0>> ELSE <<sumRatings(rs) \div Len(rs), 1>>

\* tutorReviews.reduce((sum, r) => sum + r.rating, 0) / tutorReviews.length
average(rs) == IF Len(rs) = 0 THEN <<0, 0>> ELSE Div(sumRatings(rs), Len(rs))

\* prisma.review.findMany({ where: { tutorId } }) and the average over it
reviewFindMany(p) ==
    LET tutorReviews == tutorReviewsOf(p.tutorId)
    IN  /\ p.op = "createReview" /\ p.pc = "findMany"
        /\ Goes(p, [p EXCEPT !.pc = "update",
                             !.avgRating = average(tutorReviews),
                             !.length = Len(tutorReviews)])
        /\ UNCHANGED <<user, token, category, now, booking, reviews, tutorProfile, resp, created201>>

\* mutant: the reviews counted again inside the write, as one transaction
profileUpdateRecounting(p) ==
        /\ p.op = "createReview" /\ p.pc = "update"
        /\ tutorProfile' = [tutorProfile EXCEPT ![p.tutorId] =
                              [rating |-> average(tutorReviewsOf(p.tutorId)),
                               reviewCount |-> Len(tutorReviewsOf(p.tutorId))]]
        /\ Returns(p)
        /\ Respond("createReview", p.user, p.bid, "", <<p.rating, 1>>,
                   Answer(201, "Review created successfully"))
        /\ created201' = [created201 EXCEPT ![p.bid] = @ + 1]
        /\ UNCHANGED <<user, token, category, now, booking, reviews>>

\* prisma.tutorProfile.update, then 201
profileUpdate(p) ==
        /\ p.op = "createReview" /\ p.pc = "update"
        /\ tutorProfile' = [tutorProfile EXCEPT ![p.tutorId] =
                              [rating |-> p.avgRating, reviewCount |-> p.length]]
        /\ Returns(p)
        /\ Respond("createReview", p.user, p.bid, "", <<p.rating, 1>>,
                   Answer(201, "Review created successfully"))
        /\ created201' = [created201 EXCEPT ![p.bid] = @ + 1]
        /\ UNCHANGED <<user, token, category, now, booking, reviews>>

\* -------------------------------------------------------- getTutorReviews
TutorIdQueries == {"tutor1", "tutor4", Ghost}

\* reviews.length > 0 ? reviews.reduce(...) / reviews.length : 0
avgRating(rs) == IF Len(rs) > 0 THEN Div(sumRatings(rs), Len(rs)) ELSE Div(0, 1)

\* the route is public: the count and the average of the tutor's reviews
getTutorReviews(tutorId) ==
    LET rs == tutorReviewsOf(tutorId)
    IN  /\ resp' = [NoResponse EXCEPT !.op = "getTutorReviews", !.user = Anonymous,
                                      !.target = tutorId, !.code = 200,
                                      !.bookings = {r.bookingId : r \in
                                                       {rs[i] : i \in DOMAIN rs}},
                                      !.count = Len(rs), !.avgRating = avgRating(rs)]
        /\ UNCHANGED <<user, token, category, now, booking, reviews, tutorProfile,
                       pending, created201>>

\* ---------------------------------------------------------------- register
MaxNewUsers == 1   \* users registered on top of the eight seeded ones

NewUserIds == <<"user9", "user10", "user11">>
RegisterEmails == {"john.doe@example.com", "new@example.com", "not-an-email"}
RegisterRoles == {"STUDENT", "TUTOR", "ADMIN"}
PasswordInputs == {"", "short", "Admin123!", "NewPass456"}

\* z.string().email()
isEmail(email) == email \notin {"", "not-an-email"}

\* z.string().min(8), z.string().min(1)
atLeastEight(password) == password \notin {"", "short"}
atLeastOne(password) == password # ""

registerSchema(email, password, r) ==
    isEmail(email) /\ atLeastEight(password) /\ r \in {"STUDENT", "TUTOR"}

\* prisma.user.findUnique({ where: { email } })
userByEmail(email) == {u \in DOMAIN user : user[u].email = email}

\* a continuation of a handler of the user table
UserContinuation(op, pc, u, email, password, r) ==
    [op |-> op, pc |-> pc, user |-> u, bid |-> 0, action |-> "",
     read |-> "", message |-> "", status |-> "", setNotes |-> FALSE,
     notes |-> Null, rating |-> 0, tutorId |-> "", avgRating |-> <<0, 1>>,
     length |-> 0, email |-> email, role |-> r, name |-> "", slug |-> "",
     password |-> password, reason |-> Null]

\* generateToken({ userId, email, role })
generateToken(id, email, r) == [userId |-> id, email |-> email, role |-> r]

\* everything up to the await on prisma.user.create; 0 stands for going on
registerCode(email, password, r) ==
    IF ~registerSchema(email, password, r) THEN Answer(400, "Validation Error")
    ELSE IF userByEmail(email) # {}
    THEN Answer(400, "User with this email already exists")
    ELSE Continue

register(email, password, r) ==
    LET c == registerCode(email, password, r)
    IN  IF c # Continue
        THEN /\ RespondAccount("register", Anonymous, email, r, password, c, {}, NoToken)
             /\ UNCHANGED <<user, token, category, now, booking, reviews,
                            tutorProfile, pending, created201>>
        ELSE /\ Cardinality(DOMAIN user) < Cardinality(Users) + MaxNewUsers
             /\ Suspend(UserContinuation("register", "create", Anonymous, email,
                                          password, r))
             /\ UNCHANGED <<user, token, category, now, booking, reviews,
                            tutorProfile, resp, created201>>

\* User.email is unique (it is the key of findUnique)
emailIsFree(email, u) == userByEmail(email) \subseteq {u}

\* prisma.user.create: a unique-constraint error is thrown into the catch
\* block, which answers 500; else the token is made and 201 sent
userCreate(p) ==
    LET id == NewUserIds[Cardinality(DOMAIN user) - Cardinality(Users) + 1]
    IN  /\ p.op = "register" /\ p.pc = "create"
        /\ IF emailIsFree(p.email, Anonymous)
           THEN /\ Cardinality(DOMAIN user) < Cardinality(Users) + MaxNewUsers
                /\ user' = user @@ (id :> [email |-> p.email, role |-> p.role,
                                           status |-> "ACTIVE",
                                           password |-> hashPassword(p.password)])
                /\ token' = token @@ (id :> p.email)
                /\ RespondAccount("register", Anonymous, p.email, p.role, p.password,
                                  Answer(201, "User registered successfully"), {id},
                                  generateToken(id, p.email, p.role))
           ELSE /\ RespondAccount("register", Anonymous, p.email, p.role, p.password,
                                  Answer(500, "Failed to register user"), {}, NoToken)
                /\ UNCHANGED <<user, token>>
        /\ Returns(p)
        /\ UNCHANGED <<category, now, booking, reviews, tutorProfile, created201>>

\* ------------------------------------------- updateProfile (userController)
ProfileEmails == {"john.doe@example.com", "new@example.com", "not-an-email"}

userUpdateProfileCode(u, email) ==
    IF u = Anonymous THEN Answer(401, "Not authenticated")
    ELSE IF ~isEmail(email) THEN Answer(400, "Validation Error")
    ELSE IF email # token[u] /\ \E v \in userByEmail(email) : v # u
    THEN Answer(400, "Email is already taken by another user")
    ELSE Continue

userUpdateProfile(u, email) ==
    LET c == userUpdateProfileCode(u, email)
    IN  IF c # Continue
        THEN /\ RespondTo("updateProfile", u, email, "", c, {})
             /\ UNCHANGED <<user, token, category, now, booking, reviews,
                            tutorProfile, pending, created201>>
        ELSE /\ Suspend(UserContinuation("updateProfile", "update", u, email, "", ""))
             /\ UNCHANGED <<user, token, category, now, booking, reviews,
                            tutorProfile, resp, created201>>

\* prisma.user.update({ where: { id }, data: { name, email } }), then 200
userUpdate(p) ==
        /\ p.op = "updateProfile" /\ p.pc = "update"
        /\ IF emailIsFree(p.email, p.user)
           THEN /\ user' = [user EXCEPT ![p.user].email = p.email]
                /\ RespondTo("updateProfile", p.user, p.email, "",
                             Answer(200, "Profile updated successfully"), {p.user})
           ELSE /\ RespondTo("updateProfile", p.user, p.email, "",
                             Answer(500, "Failed to update profile"), {})
                /\ UNCHANGED user
        /\ Returns(p)
        /\ UNCHANGED <<token, category, now, booking, reviews, tutorProfile,
                       created201>>

\* --------------------------------------------------------------- categories
MaxNewCategories == 1   \* categories created on top of the seven seeded ones

isAdmin(u) == roleGuard({"ADMIN"}, u)

\* the response to a request about a category, with the name and the slug
\* of its body
RespondCategory(op, u, id, name, slug, r) ==
    resp' = [NoResponse EXCEPT !.op = op, !.user = u, !.bid = id,
                               !.action = name, !.target = slug,
                               !.code = r.code, !.message = r.message]

\* an absent optional text of a body is ""
CategoryNameInputs == {"", "A", "Science", "SCIENCE", "Data Science"}
CategorySlugInputs == {"", "science", "Bad Slug"}
CategoryIdInputs == {0, 2, 3, 7 + MaxNewCategories}

\* name.toLowerCase().trim(), special characters removed, runs of blanks and
\* of hyphens turned into one hyphen
generateSlug(name) ==
    CASE name = "Science" -> "science"
      [] name = "SCIENCE" -> "science"
      [] name = "Data Science" -> "data-science"
      [] name = "A" -> "a"
      [] OTHER -> name

\* z.string().min(2) and the slug's /^[a-z0-9-]+$/
atLeastTwo(text) == text \notin {"", "A", "a"}
slugPattern(slug) == slug \in {"a", "science", "data-science"}

categorySchema(name, slug) ==
    /\ atLeastTwo(name)
    /\ slug # "" => atLeastTwo(slug) /\ slugPattern(slug)

\* categorySchema.partial(): the name is optional as well
categorySchemaPartial(name, slug) ==
    /\ name # "" => atLeastTwo(name)
    /\ slug # "" => atLeastTwo(slug) /\ slugPattern(slug)

\* prisma.category.findFirst({ where: { OR: [{ name }, { slug }] } })
existingCategory(name, slug) ==
    {c \in DOMAIN category : category[c].name = name \/ category[c].slug = slug}

newCategoryId ==
    1 + CHOOSE m \in DOMAIN category \cup {7} :
            \A c \in DOMAIN category \cup {7} : c <= m

createCategoryCode(u, name, slug) ==
    IF isAdmin(u) # Continue THEN isAdmin(u)
    ELSE IF ~categorySchema(name, slug) THEN Answer(400, "Validation Error")
    ELSE IF existingCategory(name, IF slug # "" THEN slug ELSE generateSlug(name)) # {}
    THEN Answer(400, "Category with this name or slug already exists")
    ELSE Answer(201, "Category created successfully")

\* the requests are taken one at a time: findFirst and create in one step
createCategory(u, name, slug) ==
    LET r == createCategoryCode(u, name, slug)
    IN  /\ r.code = 201 => newCategoryId <= 7 + MaxNewCategories
        /\ category' =
              IF r.code = 201
              THEN category @@
                   (newCategoryId :>
                      [name |-> name,
                       slug |-> IF slug # "" THEN slug ELSE generateSlug(name),
                       tutors |-> {}])
              ELSE category
        /\ RespondCategory("createCategory", u,
                           IF r.code = 201 THEN newCategoryId ELSE 0, name, slug, r)
        /\ UNCHANGED <<user, token, now, booking, reviews, tutorProfile, pending,
                       created201>>

\* the row as prisma.category.update({ where: { id }, data }) would store it
updatedCategory(id, name, slug) ==
    [category[id] EXCEPT !.name = IF name # "" THEN name ELSE @,
                         !.slug = IF slug # "" THEN slug ELSE @]

\* another category holds the name or the slug the row would get
conflicting(id, row) ==
    \E c \in DOMAIN category \ {id} :
        category[c].name = row.name \/ category[c].slug = row.slug

updateCategoryCode(u, id, name, slug) ==
    IF isAdmin(u) # Continue THEN isAdmin(u)
    ELSE IF ~categorySchemaPartial(name, slug) THEN Answer(400, "Validation Error")
    ELSE IF id \notin DOMAIN category THEN Answer(404, "Category not found")
    ELSE Answer(200, "Category updated successfully")

\* the handler has no check of its own for a name or slug in use: the write
\* of a row that conflicts is stored, or, where the schema (which is not
\* among the sources) has a unique index, it throws and the catch block
\* answers 500
updateCategory(u, id, name, slug) ==
    LET r == updateCategoryCode(u, id, name, slug)
    IN  /\ \/ /\ category' = IF r.code = 200
                               THEN [category EXCEPT ![id] = updatedCategory(id, name, slug)]
                               ELSE category
              /\ RespondCategory("updateCategory", u, id, name, slug, r)
           \/ /\ r.code = 200 /\ conflicting(id, updatedCategory(id, name, slug))
              /\ category' = category
              /\ RespondCategory("updateCategory", u, id, name, slug,
                                 Answer(500, "Failed to update category"))
        /\ UNCHANGED <<user, token, now, booking, reviews, tutorProfile, pending,
                       created201>>

\* mutant: the count of the linked tutors not looked at
deleteCategoryCodeUnchecked(u, id) ==
    IF isAdmin(u) # Continue THEN isAdmin(u)
    ELSE IF id \notin DOMAIN category THEN Answer(404, "Category not found")
    ELSE Answer(200, "Category deleted successfully")

deleteCategoryCode(u, id) ==
    IF isAdmin(u) # Continue THEN isAdmin(u)
    ELSE IF id \notin DOMAIN category THEN Answer(404, "Category not found")
    ELSE IF Cardinality(category[id].tutors) > 0
    THEN Answer(400, "Cannot delete category with associated tutors")
    ELSE Answer(200, "Category deleted successfully")

deleteCategory(u, id) ==
    LET r == deleteCategoryCode(u, id)
    IN  /\ category' = IF r.code = 200
                       THEN [c \in DOMAIN category \ {id} |-> category[c]]
                       ELSE category
        /\ RespondCategory("deleteCategory", u, id, "", "", r)
        /\ UNCHANGED <<user, token, now, booking, reviews, tutorProfile, pending,
                       created201>>

\* -------------------------------------------------------------------- admin
UserStatusInputs == {"ACTIVE", "BANNED", "PAUSED"}
UserIdInputs == {"admin", "tutor1", "user9", Ghost}

userStatusSchema(status) == status \in {"ACTIVE", "BANNED"}

\* mutant: the check of the target's role left out
updateUserStatusCodeAnyTarget(u, id, status) ==
    IF isAdmin(u) # Continue THEN isAdmin(u)
    ELSE IF ~userStatusSchema(status) THEN Answer(400, "Validation Error")
    ELSE IF id \notin DOMAIN user THEN Answer(404, "User not found")
    ELSE Answer(200, IF status = "BANNED" THEN "User banned successfully"
                     ELSE "User unbanned successfully")

updateUserStatusCode(u, id, status) ==
    IF isAdmin(u) # Continue THEN isAdmin(u)
    ELSE IF ~userStatusSchema(status) THEN Answer(400, "Validation Error")
    ELSE IF id \notin DOMAIN user THEN Answer(404, "User not found")
    ELSE IF role(id) = "ADMIN" /\ status = "BANNED"
    THEN Answer(403, "Cannot ban admin users")
    ELSE Answer(200, IF status = "BANNED" THEN "User banned successfully"
                     ELSE "User unbanned successfully")

\* the requests are taken one at a time: findUnique and update in one step
updateUserStatus(u, id, status) ==
    LET r == updateUserStatusCode(u, id, status)
    IN  /\ user' = IF r.code = 200 THEN [user EXCEPT ![id].status = status] ELSE user
        /\ RespondTo("updateUserStatus", u, id, status, r,
                     IF r.code = 200 THEN {id} ELSE {})
        /\ UNCHANGED <<token, category, now, booking, reviews, tutorProfile,
                       pending, created201>>

\* getUsersQuerySchema: role is one of the three roles when it is given
RoleQueries == {"", "TUTOR", "tutor"}

getAllUsersCode(u, r) ==
    IF isAdmin(u) # Continue THEN isAdmin(u)
    ELSE IF r \notin {"", "STUDENT", "TUTOR", "ADMIN"}
    THEN Answer(400, "Validation Error")
    ELSE Answer(200, "")

getAllUsers(u, r) ==
    LET c == getAllUsersCode(u, r)
    IN  /\ RespondTo("getAllUsers", u, "", r, c,
                     IF c.code = 200
                     THEN {v \in DOMAIN user : r # "" => user[v].role = r}
                     ELSE {})
        /\ UNCHANGED <<user, token, category, now, booking, reviews,
                       tutorProfile, pending, created201>>

\* getBookingsQuerySchema: status is CONFIRMED, COMPLETED or CANCELLED when
\* it is given
getAllBookingsCode(u, status) ==
    IF isAdmin(u) # Continue THEN isAdmin(u)
    ELSE IF status \notin {"", "CONFIRMED", "COMPLETED", "CANCELLED"}
    THEN Answer(400, "Validation Error")
    ELSE Answer(200, "")

getAllBookings(u, status) ==
    LET c == getAllBookingsCode(u, status)
    IN  /\ RespondWith("getAllBookings", u, 0, status, c,
                       IF c.code = 200
                       THEN {b \in DOMAIN booking :
                               status # "" => booking[b].status = toUpperCase(status)}
                       ELSE {})
        /\ UNCHANGED <<user, token, category, now, booking, reviews,
                       tutorProfile, pending, created201>>

\* prisma.booking.groupBy({ by: ['status'], _count: true }), read as
\* statusStats[status] || 0
statusStats(status) ==
    Cardinality({b \in DOMAIN booking : booking[b].status = status})

\* the counts of getStats; totalRevenue rests on hourlyRate, which is no
\* column of the model
getStats(u) ==
    LET c == IF isAdmin(u) # Continue THEN isAdmin(u) ELSE Answer(200, "")
    IN  /\ resp' = [NoResponse EXCEPT
                      !.op = "getStats", !.user = u, !.code = c.code,
                      !.message = c.message,
                      !.stats =
                         IF c.code # 200 THEN NoStats
                         ELSE [totalUsers |-> Cardinality(DOMAIN user),
                               totalTutors |-> Cardinality(DOMAIN tutorProfile),
                               totalStudents |->
                                  Cardinality({v \in DOMAIN user : user[v].role = "STUDENT"}),
                               totalBookings |-> Cardinality(DOMAIN booking),
                               activeTutors |->
                                  Cardinality({v \in DOMAIN tutorProfile :
                                     \E b \in DOMAIN booking : booking[b].tutorId = v}),
                               bookingsByStatus |->
                                  [pending |-> statusStats("PENDING"),
                                   confirmed |-> statusStats("CONFIRMED"),
                                   completed |-> statusStats("COMPLETED"),
                                   cancelled |-> statusStats("CANCELLED")]]]
        /\ UNCHANGED <<user, token, category, now, booking, reviews,
                       tutorProfile, pending, created201>>

\* -------------------------------------------------------------------- login
LoginEmails == {"admin@skillbridge.com", "sarah.anderson@example.com",
                "new@example.com", "not-an-email"}

loginSchema(email, password) == isEmail(email) /\ atLeastOne(password)

\* mutant: the password verified before the status is looked at
loginCodePasswordFirst(email, password) ==
    IF ~loginSchema(email, password) THEN Answer(400, "Validation Error")
    ELSE IF userByEmail(email) = {} THEN Answer(401, "Invalid email or password")
    ELSE LET u == CHOOSE v \in userByEmail(email) : TRUE
         IN  IF ~comparePassword(password, user[u].password)
             THEN Answer(401, "Invalid email or password")
             ELSE IF userStatus(u) = "BANNED"
             THEN Answer(403, "Your account has been banned. Please contact support.")
             ELSE Answer(200, "Login successful")

loginCode(email, password) ==
    IF ~loginSchema(email, password) THEN Answer(400, "Validation Error")
    ELSE IF userByEmail(email) = {} THEN Answer(401, "Invalid email or password")
    ELSE LET u == CHOOSE v \in userByEmail(email) : TRUE
         IN  IF userStatus(u) = "BANNED"
             THEN Answer(403, "Your account has been banned. Please contact support.")
             ELSE IF ~comparePassword(password, user[u].password)
             THEN Answer(401, "Invalid email or password")
             ELSE Answer(200, "Login successful")

\* the requests are taken one at a time: findUnique, comparePassword and the
\* response in one step; the user then holds the token that was sent
login(email, password) ==
    LET r == loginCode(email, password)
        u == CHOOSE v \in userByEmail(email) : TRUE
    IN  /\ IF r.code = 200
           THEN /\ RespondAccount("login", Anonymous, email, "", password, r, {u},
                                  generateToken(u, user[u].email, role(u)))
                /\ token' = [token EXCEPT ![u] = user[u].email]
           ELSE /\ RespondAccount("login", Anonymous, email, "", password, r, {},
                                  NoToken)
                /\ UNCHANGED token
        /\ UNCHANGED <<user, category, now, booking, reviews, tutorProfile,
                       pending, created201>>

\* ----------------------------------------------------------- updatePassword
updatePasswordSchema(currentPassword, newPassword) ==
    atLeastOne(currentPassword) /\ atLeastEight(newPassword)

\* mutant: the current password not verified
updatePasswordCodeUnverified(u, currentPassword, newPassword) ==
    IF u = Anonymous THEN Answer(401, "Not authenticated")
    ELSE IF ~updatePasswordSchema(currentPassword, newPassword)
    THEN Answer(400, "Validation Error")
    ELSE IF u \notin DOMAIN user THEN Answer(404, "User not found")
    ELSE Answer(200, "Password updated successfully")

updatePasswordCode(u, currentPassword, newPassword) ==
    IF u = Anonymous THEN Answer(401, "Not authenticated")
    ELSE IF ~updatePasswordSchema(currentPassword, newPassword)
    THEN Answer(400, "Validation Error")
    ELSE IF u \notin DOMAIN user THEN Answer(404, "User not found")
    ELSE IF ~comparePassword(currentPassword, user[u].password)
    THEN Answer(401, "Current password is incorrect")
    ELSE Answer(200, "Password updated successfully")

\* the requests are taken one at a time: findUnique, comparePassword,
\* hashPassword and update in one step
updatePassword(u, currentPassword, newPassword) ==
    LET r == updatePasswordCode(u, currentPassword, newPassword)
    IN  /\ user' = IF r.code = 200
                   THEN [user EXCEPT ![u].password = hashPassword(newPassword)]
                   ELSE user
        /\ RespondAccount("updatePassword", u, "", newPassword, currentPassword, r,
                          {}, NoToken)
        /\ UNCHANGED <<token, category, now, booking, reviews, tutorProfile,
                       pending, created201>>

\* ------------------------------- updateProfile, updateAvailability (tutors)
isTutor(u) == roleGuard({"TUTOR"}, u)

\* the rating and reviewCount of a profile created without them
defaultProfile == [rating |-> Div(0, 1), reviewCount |-> 0]

\* the categories of a body: Null when the body names none, else <<ids>>
\* with the set of the ids of its array
CategoriesInputs == {Null, <<{}>>, <<{2}>>, <<{2, 3}>>, <<{0}>>}

\* the ids of the categories a tutor's profile is linked to
linkedCategories(u) == {c \in DOMAIN category : u \in category[c].tutors}

\* categories: { set: [...] } on update and { connect: [...] } on create:
\* the profile is linked to the categories named and to no other
setCategories(u, ids) ==
    [c \in DOMAIN category |->
        [category[c] EXCEPT !.tutors = IF c \in ids THEN @ \cup {u} ELSE @ \ {u}]]

\* an id of the array that no category has makes the write throw, and the
\* catch block answers 500
tutorUpdateProfileCode(u, categories) ==
    IF isTutor(u) # Continue THEN isTutor(u)
    ELSE IF categories # Null /\ ~(categories[1] \subseteq DOMAIN category)
    THEN Answer(500, "Failed to update profile")
    ELSE Answer(200, "Profile updated successfully")

\* the other columns the body can set (bio, hourlyRate, subjects, ...) are
\* no columns of the model: an existing profile keeps its rating and
\* reviewCount, a missing one is created; the requests are taken one at a
\* time: findUnique and update or create in one step
tutorUpdateProfile(u, categories) ==
    LET c == tutorUpdateProfileCode(u, categories)
    IN  /\ tutorProfile' = IF c.code = 200 /\ ~hasTutorProfile(u)
                           THEN tutorProfile @@ (u :> defaultProfile)
                           ELSE tutorProfile
        /\ category' = IF c.code = 200 /\ categories # Null
                       THEN setCategories(u, categories[1])
                       ELSE category
        /\ resp' = [NoResponse EXCEPT !.op = "tutorUpdateProfile", !.user = u,
                                      !.categories = categories, !.code = c.code,
                                      !.message = c.message]
        /\ UNCHANGED <<user, token, now, booking, reviews, pending, created201>>

\* prisma.tutorProfile.update({ where: { userId } }) throws when there is no
\* such row, and the catch block answers 500
updateAvailabilityCode(u) ==
    IF isTutor(u) # Continue THEN isTutor(u)
    ELSE IF ~hasTutorProfile(u) THEN Answer(500, "Failed to update availability")
    ELSE Answer(200, "Availability updated successfully")

updateAvailability(u) ==
    /\ RespondTo("updateAvailability", u, "", "", updateAvailabilityCode(u), {})
    /\ UNCHANGED <<user, token, category, now, booking, reviews, tutorProfile,
                   pending, created201>>

\* ------------------------------------------------------------------ system
\* a request arrives and its handler runs up to its first await after the guards
BookingRequest(users, tutorIds, notes) ==
    \E u \in users, t \in tutorIds, d \in NewBookingTimes, n \in notes :
        createBooking(u, t, d, n)

StatusRequest(users, ids, actions, reasons) ==
    \E u \in users, id \in ids, a \in actions, r \in reasons :
        updateBookingStatus(u, id, a, r)

ReviewRequest(users, ids, ratings) ==
    \E u \in users, id \in ids, r \in ratings :
        createReview(u, id, r)

ListRequest(users, queries) ==
    \E u \in users, q \in queries : getBookings(u, q)

ReadRequest(users, ids) ==
    \E u \in users, id \in ids : getBookingById(u, id)

\* a suspended handler resumes
Resume ==
    \E p \in InFlight :
        \/ bookingUpdate(p)
        \/ reviewCreate(p)
        \/ reviewFindMany(p)
        \/ profileUpdate(p)

ResumeStatus == \E p \in InFlight : bookingUpdate(p)

ResumeStatusInBody == \E p \in InFlight : bookingUpdateInBody(p)

StatusInBodyRequest(users, ids, statuses) ==
    \E u \in users, id \in ids, st \in statuses :
        updateBookingStatusInBody(u, id, st)

ResumeUser ==
    \E p \in InFlight :
        \/ userCreate(p)
        \/ userUpdate(p)

ResumeRegister == \E p \in InFlight : userCreate(p)

RegisterRequest(emails, passwords, roles) ==
    \E e \in emails, pw \in passwords, r \in roles : register(e, pw, r)

\* a request with a bearer token comes from a user that exists
ProfileRequest(users, emails) ==
    \E u \in users, e \in emails :
        /\ u = Anonymous \/ u \in DOMAIN user
        /\ userUpdateProfile(u, e)

\* requests processed one at a time: a request arrives only when no handler
\* is suspended
NextSeq ==
    \/ Deliver
    \/ resp = NoResponse /\ Tick
    \/ resp = NoResponse /\ AllIdle /\
         BookingRequest(Requesters, TutorIdInputs, NewBookingNotes)
    \/ resp = NoResponse /\ AllIdle /\
         StatusRequest(Requesters, BookingIdInputs, ActionInputs, ReasonInputs)
    \/ resp = NoResponse /\ AllIdle /\
         ReviewRequest(Requesters, BookingIdInputs, RatingInputs)
    \/ resp = NoResponse /\ Resume

SpecSeq == Init /\ [][NextSeq]_vars

\* requests handled as they arrive, their handlers interleaving at the awaits:
\* the two participants of the seeded booking 4 (student3, tutor1) send status
\* updates and reviews for it
Participants == {"student3", "tutor1"}

Next ==
    \/ Deliver
    \/ resp = NoResponse /\ Tick
    \/ resp = NoResponse /\
         StatusRequest(Participants, {4}, {"approve", "reject", "cancel", "complete"},
                       {Null, <<"sick">>})
    \/ resp = NoResponse /\ ReviewRequest(Participants, {4}, {<<2, 1>>})
    \/ resp = NoResponse /\ Resume

Spec == Init /\ [][Next]_vars

\* two students of the same tutor: student1 books tutor1 again, tutor1 approves
\* and completes that booking and the seeded booking 4, and student1 and
\* student3 review them, the handlers interleaving at the awaits
NextReviews ==
    \/ Deliver
    \/ resp = NoResponse /\ Tick
    \/ resp = NoResponse /\ BookingRequest({"student1"}, {"tutor1"}, {Null})
    \/ resp = NoResponse /\
         StatusRequest({"tutor1"}, {4, 6}, {"approve", "complete"}, {Null})
    \/ resp = NoResponse /\ ReviewRequest({"student1", "student3"}, {4, 6}, {<<2, 1>>})
    \/ resp = NoResponse /\ Resume

SpecReviews == Init /\ [][NextReviews]_vars

\* the ratings of tutor1 and tutor4 and their public summaries: student2
\* books tutor4, the tutors approve and complete, the students review, and
\* the reviews of a tutor are read, one request at a time
TutorReviewsRequest(tutorIds) == \E t \in tutorIds : getTutorReviews(t)

NextRatings ==
    \/ Deliver
    \/ resp = NoResponse /\ Tick
    \/ resp = NoResponse /\ AllIdle /\ BookingRequest({"student2"}, {"tutor4"}, {Null})
    \/ resp = NoResponse /\ AllIdle /\
         StatusRequest({"tutor1", "tutor4"}, {4, 6}, {"approve", "complete"}, {Null})
    \/ resp = NoResponse /\ AllIdle /\
         ReviewRequest({"student2", "student3"}, {4, 6}, {<<2, 1>>, <<5, 1>>})
    \/ resp = NoResponse /\ Resume
    \/ resp = NoResponse /\ AllIdle /\ TutorReviewsRequest(TutorIdQueries)

SpecRatings == Init /\ [][NextRatings]_vars

\* bookings are listed and read while student1 and student3 book tutor1 and
\* the bookings are approved and cancelled
NextReads ==
    \/ Deliver
    \/ resp = NoResponse /\
         BookingRequest({"student1", "student3"}, {"tutor1"}, {Null})
    \/ resp = NoResponse /\
         StatusRequest(Participants, {4, 6}, {"approve", "cancel"}, {Null})
    \/ resp = NoResponse /\ ListRequest(Readers, StatusQueries)
    \/ resp = NoResponse /\ ReadRequest(Readers, BookingIdInputs)
    \/ resp = NoResponse /\ ResumeStatus

SpecReads == Init /\ [][NextReads]_vars

\* the handler that takes the new status from the body, its requests
\* processed one at a time, next to createBooking
NextInBody ==
    \/ Deliver
    \/ resp = NoResponse /\ Tick
    \/ resp = NoResponse /\ AllIdle /\
         BookingRequest({"student1"}, {"tutor1"}, {Null})
    \/ resp = NoResponse /\ AllIdle /\
         StatusInBodyRequest(Requesters, BookingIdInputs, StatusInputs)
    \/ resp = NoResponse /\ ResumeStatusInBody

SpecInBody == Init /\ [][NextInBody]_vars

\* the category routes, one request at a time
CategoryRequesters == {Anonymous, "admin", "tutor1"}

CreateCategoryRequest(users, names, slugs) ==
    \E u \in users, n \in names, sl \in slugs : createCategory(u, n, sl)

UpdateCategoryRequest(users, ids, names, slugs) ==
    \E u \in users, id \in ids, n \in names, sl \in slugs :
        updateCategory(u, id, n, sl)

DeleteCategoryRequest(users, ids) ==
    \E u \in users, id \in ids : deleteCategory(u, id)

NextCategories ==
    \/ Deliver
    \/ resp = NoResponse /\
         CreateCategoryRequest(CategoryRequesters, CategoryNameInputs, CategorySlugInputs)
    \/ resp = NoResponse /\
         UpdateCategoryRequest(CategoryRequesters, CategoryIdInputs,
                               CategoryNameInputs, CategorySlugInputs)
    \/ resp = NoResponse /\ DeleteCategoryRequest(CategoryRequesters, CategoryIdInputs)

SpecCategories == Init /\ [][NextCategories]_vars

\* all the routes with a role guard and the routes that look a row up, one
\* request at a time; a bearer token belongs to a user that exists
AdminRequesters == {Anonymous, "admin", "student1", "tutor1", "user9"}

Known(users) == {u \in users : u = Anonymous \/ u \in DOMAIN user}

UserStatusRequest(users, ids, statuses) ==
    \E u \in users, id \in ids, st \in statuses : updateUserStatus(u, id, st)

AdminReadRequest(users, roles, statuses) ==
    \E u \in users :
        \/ \E r \in roles : getAllUsers(u, r)
        \/ \E st \in statuses : getAllBookings(u, st)
        \/ getStats(u)

TutorRequest(users, categories) ==
    \E u \in users :
        \/ \E cs \in categories : tutorUpdateProfile(u, cs)
        \/ updateAvailability(u)

NextAdmin ==
    \/ Deliver
    \/ resp = NoResponse /\ AllIdle /\ RegisterRequest({"new@example.com"}, {"Admin123!"}, {"TUTOR"})
    \/ resp = NoResponse /\ ResumeUser
    \/ resp = NoResponse /\ AllIdle /\
         BookingRequest(Known(AdminRequesters), {"tutor1", "user9", "student1", Ghost},
                        {Null})
    \/ resp = NoResponse /\ AllIdle /\
         StatusRequest(Known(AdminRequesters), {0, 4}, {"cancel"}, {Null})
    \/ resp = NoResponse /\ ResumeStatus
    \/ resp = NoResponse /\ AllIdle /\
         ReviewRequest(Known(AdminRequesters), {0, 1}, {<<2, 1>>})
    \/ resp = NoResponse /\ AllIdle /\ ReadRequest(Known(AdminRequesters), {0, 1})
    \/ resp = NoResponse /\ AllIdle /\
         UserStatusRequest(Known(AdminRequesters), UserIdInputs, UserStatusInputs)
    \/ resp = NoResponse /\ AllIdle /\
         AdminReadRequest(Known(AdminRequesters), RoleQueries, StatusQueries)
    \/ resp = NoResponse /\ AllIdle /\ TutorRequest(Known(AdminRequesters), {Null})
    \/ resp = NoResponse /\ AllIdle /\
         CreateCategoryRequest(Known(AdminRequesters), {"Data Science"}, {""})
    \/ resp = NoResponse /\ AllIdle /\
         UpdateCategoryRequest(Known(AdminRequesters), {0, 2}, {"Data Science"}, {""})
    \/ resp = NoResponse /\ AllIdle /\
         DeleteCategoryRequest(Known(AdminRequesters), {0, 2, 3})

SpecAdmin == Init /\ [][NextAdmin]_vars

\* the administrator's reports while student1 books tutor1 and tutor1
\* approves or rejects, one request at a time
BookingStatusQueries ==
    {"", "PENDING", "CONFIRMED", "REJECTED", "CANCELLED", "COMPLETED"}

AllBookingsRequest(users, statuses) ==
    \E u \in users, st \in statuses : getAllBookings(u, st)

StatsRequest(users) == \E u \in users : getStats(u)

NextStats ==
    \/ Deliver
    \/ resp = NoResponse /\ AllIdle /\ BookingRequest({"student1"}, {"tutor1"}, {Null})
    \/ resp = NoResponse /\ AllIdle /\
         StatusRequest({"student1", "tutor1"}, {4, 6}, {"approve", "reject", "cancel"},
                       {Null})
    \/ resp = NoResponse /\ ResumeStatus
    \/ resp = NoResponse /\ AllIdle /\
         AllBookingsRequest({"admin", "tutor1"}, BookingStatusQueries)
    \/ resp = NoResponse /\ AllIdle /\ StatsRequest({"admin", "tutor1"})

SpecStats == Init /\ [][NextStats]_vars

\* tutors link their profiles to categories while the administrator
\* deletes and creates categories, one request at a time
TutorProfileRequest(users, categories) ==
    \E u \in users, cs \in categories : tutorUpdateProfile(u, cs)

NextLinks ==
    \/ Deliver
    \/ resp = NoResponse /\ AllIdle /\
         RegisterRequest({"new@example.com"}, {"Admin123!"}, {"TUTOR"})
    \/ resp = NoResponse /\ ResumeRegister
    \/ resp = NoResponse /\ AllIdle /\
         TutorProfileRequest(Known({"student1", "tutor1", "user9"}), CategoriesInputs)
    \/ resp = NoResponse /\ AllIdle /\
         CreateCategoryRequest({"admin"}, {"Science", "Data Science"}, {""})
    \/ resp = NoResponse /\ AllIdle /\
         DeleteCategoryRequest({"admin", "tutor1"}, CategoryIdInputs)

SpecLinks == Init /\ [][NextLinks]_vars

\* accounts are registered and their emails changed, the handlers
\* interleaving at the awaits
Account == {Anonymous, "student1", "student3", "user9"}

NextUsers ==
    \/ Deliver
    \/ resp = NoResponse /\ RegisterRequest(RegisterEmails, {"Admin123!"}, RegisterRoles)
    \/ resp = NoResponse /\ ProfileRequest(Account, ProfileEmails)
    \/ resp = NoResponse /\ ResumeUser

SpecUsers == Init /\ [][NextUsers]_vars

\* accounts: users register and log in, passwords are changed and the
\* administrator bans and unbans, one request at a time
LoginRequest(emails, passwords) ==
    \E e \in emails, pw \in passwords : login(e, pw)

PasswordRequest(users, currentPasswords, newPasswords) ==
    \E u \in users, c \in currentPasswords, n \in newPasswords :
        updatePassword(u, c, n)

NextAccounts ==
    \/ Deliver
    \/ resp = NoResponse /\ AllIdle /\
         RegisterRequest({"new@example.com"}, {"short", "NewPass456"}, RegisterRoles)
    \/ resp = NoResponse /\ ResumeRegister
    \/ resp = NoResponse /\ AllIdle /\
         UserStatusRequest(Known({"admin", "student1", "user9"}), UserIdInputs,
                           UserStatusInputs)
    \/ resp = NoResponse /\ AllIdle /\ LoginRequest(LoginEmails, PasswordInputs)
    \/ resp = NoResponse /\ AllIdle /\
         PasswordRequest({Anonymous, "tutor1"}, PasswordInputs, PasswordInputs)

SpecAccounts == Init /\ [][NextAccounts]_vars
\* ------------------------------------------------------------------ claims
\* a step in which a response to an updateBookingStatus request on an
\* existing booking is sent
StatusResponse ==
    /\ resp = NoResponse
    /\ resp'.op = "updateBookingStatus"
    /\ resp'.bid \in DOMAIN booking

\* C1: with requests processed one at a time, every change of a booking's
\* stored status is one of the five edges PENDING->CONFIRMED,
\* PENDING->REJECTED, PENDING->CANCELLED, CONFIRMED->CANCELLED,
\* CONFIRMED->COMPLETED, and a request by the entitled participant whose
\* action is not allowed from the current status is answered 400 and leaves
\* the booking's status and notes unchanged.
C1_Edges ==
    {<<"PENDING", "CONFIRMED">>, <<"PENDING", "REJECTED">>,
     <<"PENDING", "CANCELLED">>, <<"CONFIRMED", "CANCELLED">>,
     <<"CONFIRMED", "COMPLETED">>}

C1_Entitled(bk, u, action) ==
    IF action = "cancel" THEN u \in {bk.studentId, bk.tutorId} ELSE u = bk.tutorId

C1_AllowedFrom(action) ==
    CASE action = "approve" -> {"PENDING"}
      [] action = "reject" -> {"PENDING"}
      [] action = "cancel" -> {"PENDING", "CONFIRMED"}
      [] action = "complete" -> {"CONFIRMED"}

C1_StatusGraph ==
    [][ /\ \A b \in DOMAIN booking :
             booking'[b].status # booking[b].status
                => <<booking[b].status, booking'[b].status>> \in C1_Edges
        /\ ( /\ StatusResponse
             /\ resp'.action \in {"approve", "reject", "cancel", "complete"}
             /\ C1_Entitled(booking[resp'.bid], resp'.user, resp'.action)
             /\ booking[resp'.bid].status \notin C1_AllowedFrom(resp'.action) )
           => /\ resp'.code = 400
              /\ booking' = booking ]_vars

\* C1 witness: a booking created here went PENDING -> CONFIRMED -> COMPLETED,
\* and its student's cancel is then answered 400
C1_Witness ==
    /\ resp.op = "updateBookingStatus" /\ resp.code = 400
    /\ resp.action = "cancel"
    /\ resp.bid \in DOMAIN booking /\ resp.bid > 5
    /\ resp.user = booking[resp.bid].studentId
    /\ booking[resp.bid].status = "COMPLETED"

\* C2: approve and reject are answered 200 only for the booking's tutor on
\* a PENDING booking, approve storing CONFIRMED and reject REJECTED; any
\* other user asking to approve or reject gets 403 and nothing changes.
C2_ApproveReject ==
    [][ ( StatusResponse /\ resp'.action \in {"approve", "reject"} )
        => LET b == resp'.bid
           IN  /\ resp'.code = 200
                    => /\ resp'.user = booking[b].tutorId
                       /\ booking[b].status = "PENDING"
                       /\ booking'[b].status =
                            (IF resp'.action = "approve" THEN "CONFIRMED" ELSE "REJECTED")
               /\ ( resp'.user \in Users /\ resp'.user # booking[b].tutorId )
                    => /\ resp'.code = 403
                       /\ booking' = booking ]_vars

\* C2 witness: the tutor's approve has been answered 200 and the booking is
\* CONFIRMED
C2_Witness ==
    /\ resp.op = "updateBookingStatus" /\ resp.code = 200 /\ resp.action = "approve"
    /\ resp.bid \in DOMAIN booking
    /\ resp.user = booking[resp.bid].tutorId
    /\ booking[resp.bid].status = "CONFIRMED"

\* C3: cancel is answered 200 exactly when the requester is the booking's
\* student or tutor and the booking is PENDING or CONFIRMED, and it then
\* stores CANCELLED.
C3_Cancel ==
    [][ ( StatusResponse /\ resp'.action = "cancel" /\ resp'.user \in Users )
        => LET b == resp'.bid
           IN  /\ resp'.code = 200
                    <=> /\ resp'.user \in {booking[b].studentId, booking[b].tutorId}
                        /\ booking[b].status \in {"PENDING", "CONFIRMED"}
               /\ resp'.code = 200 => booking'[b].status = "CANCELLED" ]_vars

\* C3 witness: the tutor (not the student) has cancelled a booking
C3_Witness ==
    /\ resp.op = "updateBookingStatus" /\ resp.code = 200 /\ resp.action = "cancel"
    /\ resp.bid \in DOMAIN booking
    /\ resp.user = booking[resp.bid].tutorId
    /\ booking[resp.bid].status = "CANCELLED"

\* C4: complete is answered 200 only for the booking's tutor on a CONFIRMED
\* booking whose dateTime is not after the clock; the tutor's complete on a
\* CONFIRMED booking whose dateTime is still ahead is answered 400 and the
\* booking stays as it is; no booking becomes COMPLETED before its dateTime.
C4_Complete ==
    [][ /\ ( StatusResponse /\ resp'.action = "complete" )
           => LET b == resp'.bid
              IN  /\ resp'.code = 200
                       => /\ resp'.user = booking[b].tutorId
                          /\ booking[b].status = "CONFIRMED"
                          /\ now >= booking[b].dateTime
                          /\ booking'[b].status = "COMPLETED"
                  /\ ( /\ resp'.user = booking[b].tutorId
                       /\ booking[b].status = "CONFIRMED"
                       /\ now < booking[b].dateTime )
                       => /\ resp'.code = 400
                          /\ booking' = booking
        /\ \A b \in DOMAIN booking :
             ( booking[b].status # "COMPLETED" /\ booking'[b].status = "COMPLETED" )
                => now' >= booking[b].dateTime ]_vars

\* C4 witness: the tutor's complete on a CONFIRMED booking that is still
\* ahead has been answered 400
C4_Witness ==
    /\ resp.op = "updateBookingStatus" /\ resp.code = 400 /\ resp.action = "complete"
    /\ resp.message = "Cannot mark booking as completed before the scheduled time"
    /\ resp.bid \in DOMAIN booking
    /\ resp.user = booking[resp.bid].tutorId
    /\ booking[resp.bid].status = "CONFIRMED"
    /\ now < booking[resp.bid].dateTime
\* C5: once a booking's stored status is REJECTED, CANCELLED or COMPLETED,
\* no request changes it again.
C5_Terminal ==
    [][ \A b \in DOMAIN booking :
          booking[b].status \in {"REJECTED", "CANCELLED", "COMPLETED"}
             => booking'[b].status = booking[b].status ]_vars

\* C6: when updateBookingStatus requests on the same booking interleave,
\* every change of the stored status is still one of the five edges, and no
\* request is answered 200 for a transition whose source status was no longer
\* the stored status when its write was applied.
C6_NoHazard ==
    [][ /\ \A b \in DOMAIN booking :
             booking'[b].status # booking[b].status
                => <<booking[b].status, booking'[b].status>> \in C1_Edges
        /\ \A p \in InFlight :
             ( p.op = "updateBookingStatus" /\ bookingUpdate(p) )
                => booking[p.bid].status = p.read ]_vars

\* C7: every existing review refers to a booking whose status is COMPLETED.
C7_ReviewedIsCompleted ==
    \A i \in DOMAIN reviews : booking[reviews[i].bookingId].status = "COMPLETED"

\* C8: for any interleaving of createReview requests on the same booking, at
\* most one Review row exists for the booking and at most one of the
\* requests is answered 201.
C8_OneReview ==
    \A b \in DOMAIN booking :
        /\ Cardinality(reviewOf(b)) <= 1
        /\ created201[b] <= 1

\* C8 witness: two createReview requests for the same booking both passed
\* the "already reviewed" check; one created the row and the other has just
\* been answered 500
C8_Witness ==
    /\ resp.op = "createReview" /\ resp.code = 500
    /\ Cardinality(reviewOf(resp.bid)) = 1
\* C9: a createReview request by the booking's student for a booking that
\* already has a review is answered 400 ("You have already reviewed this
\* booking" when the body is valid), creates no second review and leaves the
\* tutor's rating and reviewCount unchanged; its handler never gets as far as
\* prisma.review.create.
C9_AlreadyReviewed ==
    [][ /\ ( /\ resp = NoResponse /\ resp'.op = "createReview"
             /\ pending' = pending
             /\ resp'.bid \in DOMAIN booking
             /\ resp'.user = booking[resp'.bid].studentId
             /\ \E i \in DOMAIN reviews : reviews[i].bookingId = resp'.bid )
           => /\ resp'.code = 400
              /\ ( createReviewSchema(resp'.rating) /\ booking[resp'.bid].status = "COMPLETED" )
                   => resp'.message = "You have already reviewed this booking"
              /\ reviews' = reviews
              /\ tutorProfile' = tutorProfile
        /\ \A p \in BagToSet(pending') :
             ( p.op = "createReview" /\ p.pc = "create" /\ p \notin BagToSet(pending) )
                => ~ \E i \in DOMAIN reviews : reviews[i].bookingId = p.bid ]_vars

\* C9 witness: the student of a reviewed booking asked to review it again with
\* a valid rating and got the 400 of the duplicate check
C9_Witness ==
    /\ resp.op = "createReview" /\ resp.code = 400
    /\ resp.message = "You have already reviewed this booking"
    /\ createReviewSchema(resp.rating)
    /\ resp.bid \in DOMAIN booking
    /\ resp.user = booking[resp.bid].studentId
    /\ Cardinality(reviewOf(resp.bid)) = 1

\* C10: when a createReview that ran without a concurrent createReview is
\* answered 201, the tutor's reviewCount is the number of Review rows with
\* that tutorId and the tutor's rating is the sum of their ratings divided
\* by that number.
RECURSIVE C10_Sum(_)
C10_Sum(rows) ==
    IF rows = {} THEN 0
    ELSE LET i == CHOOSE j \in rows : TRUE
         IN  reviews[i].rating + C10_Sum(rows \ {i})

C10_Average ==
    ( resp.op = "createReview" /\ resp.code = 201 )
       => LET t == booking[resp.bid].tutorId
              rows == {i \in DOMAIN reviews : reviews[i].tutorId = t}
              n == Cardinality(rows)
          IN  /\ tutorProfile[t].reviewCount = n
              /\ tutorProfile[t].rating[2] > 0
              /\ tutorProfile[t].rating[1] * n = C10_Sum(rows) * tutorProfile[t].rating[2]

\* C10 witness: a 201 after which the tutor's average is not a whole number
C10_Witness ==
    /\ resp.op = "createReview" /\ resp.code = 201
    /\ tutorProfile[booking[resp.bid].tutorId].rating[2] > 1
\* C11: the review is created, the tutor's reviews are read and the rating and
\* reviewCount are written in three separate steps: a createReview whose read
\* is older than another request's new review still writes the count and the
\* average it read and is answered 201, so the stored reviewCount is then
\* smaller than the number of the tutor's Review rows.
C11_LostUpdate ==
    [][ \A p \in InFlight :
          ( /\ p.op = "createReview" /\ p.pc = "update"
            /\ profileUpdate(p)
            /\ p.length < Len(tutorReviewsOf(p.tutorId)) )
             => /\ resp'.code = 201
                /\ tutorProfile'[p.tutorId].reviewCount < Len(tutorReviewsOf(p.tutorId))
                /\ tutorProfile'[p.tutorId].rating # average(tutorReviewsOf(p.tutorId)) ]_vars

\* C11 witness: the reviews of two different COMPLETED bookings of tutor1 have
\* both been answered 201, no handler is running, and tutor1's reviewCount is
\* 2 for 3 Review rows
C11_Witness ==
    /\ AllIdle
    /\ 6 \in DOMAIN booking
    /\ booking[4].status = "COMPLETED" /\ booking[6].status = "COMPLETED"
    /\ created201[4] = 1 /\ created201[6] = 1
    /\ Len(tutorReviewsOf("tutor1")) = 3
    /\ tutorProfile["tutor1"].reviewCount = 2
    /\ tutorProfile["tutor1"].rating = Div(7, 2)

\* C12: every stored review rating is an integer in 1..5; a createReview
\* request of a student whose rating is below 1, above 5 or not an integer is
\* answered 400 at once, whatever the booking id, with no handler left
\* running and no review created.
C12_Rating ==
    /\ [] /\ \A i \in DOMAIN reviews : reviews[i].rating \in 1..5
          /\ ( /\ resp.op = "createReview"
               /\ resp.user \in Users /\ role(resp.user) = "STUDENT"
               /\ ~ ( resp.rating[2] = 1 /\ resp.rating[1] \in 1..5 ) )
             => resp.code = 400 /\ resp.message = "Validation Error"
    /\ [][ ( /\ resp = NoResponse /\ resp'.op = "createReview"
              /\ ~ ( resp'.rating[2] = 1 /\ resp'.rating[1] \in 1..5 ) )
            => /\ reviews' = reviews /\ tutorProfile' = tutorProfile
               /\ pending' = pending ]_vars

\* C12 witness: the student of a COMPLETED booking without a review sent the
\* rating 2.5 for it and got 400
C12_Witness ==
    /\ resp.op = "createReview" /\ resp.code = 400
    /\ resp.rating = <<5, 2>>
    /\ resp.bid \in DOMAIN booking
    /\ resp.user = booking[resp.bid].studentId
    /\ booking[resp.bid].status = "COMPLETED"
    /\ reviewOf(resp.bid) = {}

\* C13: getBookingById answers 403, sending no booking, to a user who is not
\* an ADMIN and is neither the student nor the tutor of the booking;
\* getBookings sends a STUDENT only bookings whose studentId is the requester
\* and a TUTOR only bookings whose tutorId is the requester; a booking is sent
\* to a user who is not one of its two participants only if the user is an
\* ADMIN.
C13_TenantReads ==
    /\ ( /\ resp.op = "getBookingById" /\ resp.bid \in DOMAIN booking
         /\ resp.user \in Users /\ role(resp.user) # "ADMIN"
         /\ resp.user \notin {booking[resp.bid].studentId, booking[resp.bid].tutorId} )
       => resp.code = 403 /\ resp.bookings = {}
    /\ resp.op = "getBookings" /\ resp.user \in Users
       => /\ role(resp.user) = "STUDENT"
               => \A b \in resp.bookings : booking[b].studentId = resp.user
          /\ role(resp.user) = "TUTOR"
               => \A b \in resp.bookings : booking[b].tutorId = resp.user
    /\ \A b \in resp.bookings :
          resp.user \notin {booking[b].studentId, booking[b].tutorId}
             => resp.user \in Users /\ role(resp.user) = "ADMIN"

\* C13 witness: a tutor asked for a booking of another tutor and got 403
C13_Witness ==
    /\ resp.op = "getBookingById" /\ resp.code = 403
    /\ resp.bid \in DOMAIN booking
    /\ role(resp.user) = "TUTOR"
    /\ booking[resp.bid].tutorId # resp.user

\* C14: for an existing booking and a valid action, a requester who is
\* neither the booking's student nor its tutor (an ADMIN included) is answered
\* 403 by updateBookingStatus and nothing changes; and the answer does not
\* depend on the booking's status: with any of the five statuses in place of
\* the stored one, the handler gives that requester the same code.
C14_Statuses == {"PENDING", "CONFIRMED", "REJECTED", "CANCELLED", "COMPLETED"}

C14_Outsider ==
    [][ ( /\ StatusResponse
          /\ updateBookingStatusSchema(resp'.action)
          /\ resp'.user \in Users
          /\ resp'.user \notin {booking[resp'.bid].studentId,
                                 booking[resp'.bid].tutorId} )
        => /\ resp'.code = 403
           /\ booking' = booking /\ pending' = pending
           /\ \A s \in C14_Statuses, r \in ReasonInputs :
                 statusSwitch([booking[resp'.bid] EXCEPT !.status = s],
                              resp'.user, resp'.action, r, now).code = resp'.code
      ]_vars

\* C14 witness: the administrator asked to complete a CONFIRMED booking that
\* is due, which its tutor could complete, and got 403
C14_Witness ==
    /\ resp.op = "updateBookingStatus" /\ resp.code = 403
    /\ resp.action = "complete" /\ resp.user = "admin"
    /\ resp.bid \in DOMAIN booking
    /\ booking[resp.bid].status = "CONFIRMED"
    /\ now >= booking[resp.bid].dateTime

\* C19: no two users have the same email; a register or updateProfile
\* request with a well-formed body that does not succeed, because its email
\* is held by another user before or by the time it is written, is
\* answered 400 and leaves the user table as it is.
C19_EmailUnique ==
    /\ \A u \in DOMAIN user, v \in DOMAIN user :
          user[u].email = user[v].email => u = v
    /\ ( /\ resp.op = "register"
         /\ registerSchema(resp.target, resp.password, resp.action)
         /\ resp.code # 201 )
       => resp.code = 400
    /\ ( /\ resp.op = "updateProfile"
         /\ resp.user \in DOMAIN user /\ isEmail(resp.target)
         /\ resp.code # 200 )
       => resp.code = 400

\* C17: the handler that takes the status from the body changes a booking's
\* status only along the edges of the graph and answers 400 to a request for
\* any other change: it never moves a booking out of COMPLETED, CANCELLED or
\* REJECTED, stores CONFIRMED only over PENDING and only for the booking's
\* tutor, stores COMPLETED only over CONFIRMED, and answers 200 to a cancel
\* of a PENDING or CONFIRMED booking by its student and by its tutor.
C17_InBody ==
    [][ /\ \A b \in DOMAIN booking :
             booking'[b].status # booking[b].status
                => <<booking[b].status, booking'[b].status>> \in C1_Edges
        /\ ( /\ resp = NoResponse /\ resp'.op = "updateBookingStatusInBody"
             /\ resp'.bid \in DOMAIN booking /\ resp'.user \in DOMAIN user )
           => LET bk == booking[resp'.bid]
              IN  /\ ( resp'.code = 200 /\ resp'.action = "CONFIRMED" )
                       => bk.status = "PENDING" /\ resp'.user = bk.tutorId
                  /\ ( resp'.code = 200 /\ resp'.action = "COMPLETED" )
                       => bk.status = "CONFIRMED"
                  /\ ( /\ resp'.action = "CANCELLED"
                       /\ resp'.user \in {bk.studentId, bk.tutorId}
                       /\ bk.status \in {"PENDING", "CONFIRMED"} )
                       => resp'.code = 200
                  /\ ( /\ resp'.action \in {"CONFIRMED", "COMPLETED", "CANCELLED"}
                       /\ <<bk.status, resp'.action>> \notin C1_Edges
                       /\ resp'.user \in {bk.studentId, bk.tutorId} )
                       => resp'.code \in {400, 403}
      ]_vars

\* C18: no two categories share a name or a slug, and an administrator's
\* createCategory or updateCategory request with a valid body that would
\* give a category a name or a slug (given, or generated from the name by
\* createCategory) held by another category is answered 400 and leaves the
\* categories unchanged.
C18_Unique ==
    [][ /\ \A c \in DOMAIN category', d \in DOMAIN category' :
             ( category'[c].name = category'[d].name
               \/ category'[c].slug = category'[d].slug ) => c = d
        /\ ( /\ resp = NoResponse /\ resp'.op = "updateCategory"
             /\ resp'.user = "admin" /\ resp'.bid \in DOMAIN category
             /\ categorySchemaPartial(resp'.action, resp'.target)
             /\ conflicting(resp'.bid,
                            updatedCategory(resp'.bid, resp'.action, resp'.target)) )
           => resp'.code = 400 /\ category' = category
        /\ ( /\ resp = NoResponse /\ resp'.op = "createCategory"
             /\ resp'.user = "admin"
             /\ categorySchema(resp'.action, resp'.target)
             /\ \E c \in DOMAIN category :
                   \/ category[c].name = resp'.action
                   \/ category[c].slug = ( IF resp'.target # "" THEN resp'.target
                                           ELSE generateSlug(resp'.action) ) )
           => resp'.code = 400 /\ category' = category
      ]_vars

\* C15: roleGuard answers 401 to a request without a user, 403 to a user
\* whose role is not in the list, and otherwise passes the request on; the
\* handlers createBooking and createReview are reached only by a STUDENT,
\* the tutors' updateProfile and updateAvailability only by a TUTOR, and the
\* admin handlers and createCategory, updateCategory, deleteCategory only by
\* an ADMIN.
C15_GuardMessages == {"Authentication required", "Access denied"}

C15_AllowedRole ==
    [op \in {"createBooking", "createReview", "tutorUpdateProfile",
             "updateAvailability", "updateUserStatus", "getAllUsers",
             "getAllBookings", "getStats", "createCategory", "updateCategory",
             "deleteCategory"} |->
        IF op \in {"createBooking", "createReview"} THEN "STUDENT"
        ELSE IF op \in {"tutorUpdateProfile", "updateAvailability"} THEN "TUTOR"
        ELSE "ADMIN"]

C15_RoleGating ==
    /\ \A allowed \in SUBSET {"STUDENT", "TUTOR", "ADMIN"} :
          /\ roleGuard(allowed, Anonymous).code = 401
          /\ \A u \in DOMAIN user :
                roleGuard(allowed, u) =
                   IF role(u) \in allowed THEN Continue
                   ELSE Answer(403, "Access denied")
    /\ ( resp.op \in DOMAIN C15_AllowedRole /\ resp.message \notin C15_GuardMessages )
       => /\ resp.user \in DOMAIN user
          /\ role(resp.user) = C15_AllowedRole[resp.op]
    /\ ( resp.op \in DOMAIN C15_AllowedRole /\ resp.user = Anonymous )
       => resp.code = 401
    /\ ( /\ resp.op \in DOMAIN C15_AllowedRole /\ resp.user \in DOMAIN user
         /\ role(resp.user) # C15_AllowedRole[resp.op] )
       => resp.code = 403
    /\ \A p \in InFlight :
          p.op = "createReview" => role(p.user) = "STUDENT"

\* C15 witness: a tutor asked to create a booking and the guard answered 403
C15_Witness ==
    /\ resp.op = "createBooking" /\ resp.code = 403
    /\ resp.message = "Access denied"
    /\ resp.user \in DOMAIN user /\ role(resp.user) = "TUTOR"

\* C16: a request that reaches its handler with a valid body and names a
\* row that does not exist is answered 404 and changes no table:
\* getBookingById, updateBookingStatus and createReview for an unknown
\* booking id, updateUserStatus for an unknown user id, updateCategory and
\* deleteCategory for an unknown category id, createBooking for an unknown
\* tutor, updateAvailability by a tutor without a TutorProfile.
C16_Missing ==
    \/ /\ resp'.op \in {"getBookingById", "updateBookingStatus"}
       /\ resp'.user \in DOMAIN user
       /\ resp'.op = "updateBookingStatus" => updateBookingStatusSchema(resp'.action)
       /\ resp'.bid \notin DOMAIN booking
    \/ /\ resp'.op = "createReview"
       /\ resp'.user \in DOMAIN user /\ role(resp'.user) = "STUDENT"
       /\ createReviewSchema(resp'.rating)
       /\ resp'.bid \notin DOMAIN booking
    \/ /\ resp'.op = "updateUserStatus"
       /\ resp'.user \in DOMAIN user /\ role(resp'.user) = "ADMIN"
       /\ userStatusSchema(resp'.action)
       /\ resp'.target \notin DOMAIN user
    \/ /\ resp'.op \in {"updateCategory", "deleteCategory"}
       /\ resp'.user \in DOMAIN user /\ role(resp'.user) = "ADMIN"
       /\ resp'.op = "updateCategory" => categorySchemaPartial(resp'.action, resp'.target)
       /\ resp'.bid \notin DOMAIN category
    \/ /\ resp'.op = "createBooking"
       /\ resp'.user \in DOMAIN user /\ role(resp'.user) = "STUDENT"
       /\ resp'.target \notin DOMAIN user
    \/ /\ resp'.op = "updateAvailability"
       /\ resp'.user \in DOMAIN user /\ role(resp'.user) = "TUTOR"
       /\ resp'.user \notin DOMAIN tutorProfile

C16_NotFound ==
    [][ ( resp = NoResponse /\ resp'.op # "none" /\ C16_Missing )
        => /\ resp'.code = 404
           /\ UNCHANGED <<booking, reviews, tutorProfile, user, category, pending>>
      ]_vars

\* the same with updateAvailability left aside
C16_NotFoundButAvailability ==
    [][ ( /\ resp = NoResponse /\ resp'.op \notin {"none", "updateAvailability"}
          /\ C16_Missing )
        => /\ resp'.code = 404
           /\ UNCHANGED <<booking, reviews, tutorProfile, user, category, pending>>
      ]_vars

\* C20: createBooking, reached by a student, creates a booking only when the
\* target user exists, has role TUTOR, has a TutorProfile and is not BANNED;
\* it answers 404 when one of the first three fails and 400 when only the
\* last does, creating nothing; the booking it creates has the requester as
\* studentId, the requested tutorId and the status PENDING; and bookings
\* are created by nothing else.
C20_IsTutor(t) ==
    t \in DOMAIN user /\ user[t].role = "TUTOR" /\ t \in DOMAIN tutorProfile

C20_CreateBooking ==
    [][ /\ ( /\ resp = NoResponse /\ resp'.op = "createBooking"
             /\ resp'.user \in DOMAIN user /\ role(resp'.user) = "STUDENT" )
           => LET t == resp'.target
              IN  /\ resp'.code = 201
                       <=> C20_IsTutor(t) /\ user[t].status # "BANNED"
                  /\ ~C20_IsTutor(t) => resp'.code = 404
                  /\ ( C20_IsTutor(t) /\ user[t].status = "BANNED" )
                       => resp'.code = 400
                  /\ resp'.code # 201 => booking' = booking
                  /\ resp'.code = 201
                       => /\ DOMAIN booking' = DOMAIN booking \cup {resp'.bid}
                          /\ resp'.bid \notin DOMAIN booking
                          /\ \A b \in DOMAIN booking : booking'[b] = booking[b]
                          /\ booking'[resp'.bid].studentId = resp'.user
                          /\ booking'[resp'.bid].tutorId = t
                          /\ booking'[resp'.bid].status = "PENDING"
        /\ DOMAIN booking' # DOMAIN booking
             => resp'.op = "createBooking" /\ resp'.code = 201
      ]_vars

\* C20 witness: a student asked for a booking with a tutor who has a profile
\* and is BANNED, and got 400
C20_Witness ==
    /\ resp.op = "createBooking" /\ resp.code = 400
    /\ resp.message = "This tutor is not available"
    /\ resp.user \in DOMAIN user /\ role(resp.user) = "STUDENT"
    /\ C20_IsTutor(resp.target) /\ user[resp.target].status = "BANNED"

\* C21: every user with role ADMIN has status ACTIVE; an administrator's
\* updateUserStatus request to set a user with role ADMIN to BANNED is
\* answered 403 and leaves the user table as it is; a user that is created
\* has role STUDENT or TUTOR; and no step changes the role of a user.
C21_AdminActive ==
    /\ [] \A u \in DOMAIN user : user[u].role = "ADMIN" => user[u].status = "ACTIVE"
    /\ [][ /\ ( /\ resp = NoResponse /\ resp'.op = "updateUserStatus"
                /\ resp'.user \in DOMAIN user /\ role(resp'.user) = "ADMIN"
                /\ resp'.target \in DOMAIN user /\ role(resp'.target) = "ADMIN"
                /\ resp'.action = "BANNED" )
              => resp'.code = 403 /\ user' = user
           /\ \A u \in DOMAIN user' \ DOMAIN user :
                 /\ user'[u].role \in {"STUDENT", "TUTOR"}
                 /\ resp'.op = "register"
           /\ \A v \in DOMAIN user :
                 v \in DOMAIN user' /\ user'[v].role = user[v].role ]_vars

\* C21 witness: the administrator has banned a tutor, a user has registered,
\* and the administrator's request to ban the administrator got 403
C21_Witness ==
    /\ resp.op = "updateUserStatus" /\ resp.code = 403
    /\ resp.message = "Cannot ban admin users"
    /\ resp.user = "admin" /\ resp.target = "admin" /\ resp.action = "BANNED"
    /\ user["tutor1"].status = "BANNED"
    /\ "user9" \in DOMAIN user

\* C22: a login request with a well-formed body is answered 200 exactly
\* when a user has the email, that user is not BANNED and the password is
\* the user's; it is answered 401 when no user has the email, 403 when the
\* user is BANNED (whatever the password), 401 when the user is not BANNED
\* and the password is wrong; a token is sent only with a 200 and is the
\* token of that user; and a BANNED user stays BANNED until an
\* administrator's updateUserStatus sets the user ACTIVE.
C22_Login ==
    [][ /\ ( resp = NoResponse /\ resp'.op = "login"
             /\ loginSchema(resp'.target, resp'.password) )
           => LET holders == {u \in DOMAIN user : user[u].email = resp'.target}
              IN  /\ holders = {} => resp'.code = 401
                  /\ \A u \in holders :
                        /\ user[u].status = "BANNED" => resp'.code = 403
                        /\ ( /\ user[u].status # "BANNED"
                             /\ user[u].password # hashPassword(resp'.password) )
                             => resp'.code = 401
                        /\ ( /\ user[u].status # "BANNED"
                             /\ user[u].password = hashPassword(resp'.password) )
                             => /\ resp'.code = 200
                                /\ resp'.token = [userId |-> u, email |-> user[u].email,
                                                  role |-> user[u].role]
                  /\ resp'.code = 200 => holders # {}
                  /\ user' = user
        /\ ( resp'.op = "login" /\ resp'.code # 200 ) => resp'.token = NoToken
        /\ \A u \in DOMAIN user :
              ( user[u].status = "BANNED" /\ user'[u].status # "BANNED" )
                 => /\ resp'.op = "updateUserStatus" /\ resp'.code = 200
                    /\ resp'.target = u /\ resp'.action = "ACTIVE"
                    /\ role(resp'.user) = "ADMIN" ]_vars

\* C22 witness: a tutor the administrator has banned logs in with a wrong
\* password and gets 403, not 401
C22_Witness ==
    /\ resp.op = "login" /\ resp.code = 403
    /\ resp.target = user["tutor1"].email
    /\ user["tutor1"].status = "BANNED"
    /\ ~comparePassword(resp.password, user["tutor1"].password)
    /\ resp.token = NoToken

\* C29: an updatePassword request of a user is answered 200 exactly when
\* its currentPassword is the user's password and its newPassword has at
\* least 8 characters, and then stores the hash of newPassword for that
\* user and changes nothing else; a newPassword that is too short is
\* answered 400, a currentPassword that is given and wrong (with a
\* newPassword long enough) 401, and then the user table is unchanged and
\* login answers every password as before; nothing else changes a password.
C29_UpdatePassword ==
    [][ /\ ( /\ resp = NoResponse /\ resp'.op = "updatePassword"
             /\ resp'.user \in DOMAIN user )
           => LET u == resp'.user
                  currentPassword == resp'.password
                  newPassword == resp'.action
                  matches == user[u].password = hashPassword(currentPassword)
                  longEnough == newPassword \in {"Admin123!", "NewPass456"}
              IN  /\ resp'.code = 200 <=> matches /\ longEnough
                  /\ ~longEnough => resp'.code = 400
                  /\ ( longEnough /\ currentPassword # "" /\ ~matches )
                       => resp'.code = 401
                  /\ resp'.code = 200
                       => user' = [user EXCEPT ![u].password = hashPassword(newPassword)]
                  /\ resp'.code # 200
                       => /\ user' = user
                          /\ \A v \in DOMAIN user, pw \in PasswordInputs :
                                loginCode(user[v].email, pw)' = loginCode(user[v].email, pw)
        /\ \A u \in DOMAIN user :
              user'[u].password # user[u].password
                 => /\ resp'.op = "updatePassword" /\ resp'.code = 200
                    /\ resp'.user = u ]_vars

\* C29 witness: a tutor who has changed the password asks to change it
\* again and gives the former password as the current one: 401, and the
\* stored hash is still that of the password set before
C29_Witness ==
    /\ resp.op = "updatePassword" /\ resp.code = 401
    /\ resp.message = "Current password is incorrect"
    /\ resp.user = "tutor1" /\ resp.password = "Admin123!"
    /\ resp.action = "NewPass456"
    /\ user["tutor1"].password = hashPassword("NewPass456")
    /\ loginCode(user["tutor1"].email, "NewPass456").code = 200

\* requests processed one at a time, narrowed to the notes of a booking: the
\* parties of the seeded bookings 1 and 4 and of a new booking of student1
\* with tutor1 send status updates with and without a reason, and student1
\* reviews the completed booking 1
NotesRequesters == {"student1", "student3", "tutor1"}

NextNotes ==
    \/ Deliver
    \/ resp = NoResponse /\ Tick
    \/ resp = NoResponse /\ AllIdle /\
         BookingRequest({"student1"}, {"tutor1"}, NewBookingNotes)
    \/ resp = NoResponse /\ AllIdle /\
         StatusRequest(NotesRequesters, BookingIdInputs, ActionInputs, ReasonInputs)
    \/ resp = NoResponse /\ AllIdle /\ ReviewRequest({"student1"}, {1}, {<<2, 1>>})
    \/ resp = NoResponse /\ Resume

SpecNotes == Init /\ [][NextNotes]_vars

\* C23: with requests processed one at a time, an updateBookingStatus
\* answered 200 changes only the booking it names and of it only the status
\* and, for a reject or cancel with a reason, the notes: approve and
\* complete leave the notes as they were, reject and cancel without a
\* reason (none, or an empty one) too, and with a reason the new notes are
\* the previous notes, when there are any, followed by a blank line, then
\* the tag [REJECTION REASON] or [CANCELLATION REASON], a line break and
\* the reason; no step changes the studentId, tutorId, dateTime or duration
\* of a booking.
C23_Tag == [reject |-> "[REJECTION REASON]\n", cancel |-> "[CANCELLATION REASON]\n"]

C23_NotesFrame ==
    [][ /\ ( /\ resp = NoResponse /\ resp'.op = "updateBookingStatus"
             /\ resp'.code = 200 )
           => LET b == resp'.bid
                  before == booking[b]
                  after == booking'[b]
                  given == resp'.reason # Null /\ resp'.reason # <<"">>
              IN  /\ DOMAIN booking' = DOMAIN booking
                  /\ \A c \in DOMAIN booking \ {b} : booking'[c] = booking[c]
                  /\ after = [before EXCEPT !.status = after.status,
                                            !.notes = after.notes]
                  /\ resp'.action \in {"approve", "complete"}
                       => after.notes = before.notes
                  /\ ( resp'.action \in {"reject", "cancel"} /\ ~given )
                       => after.notes = before.notes
                  /\ ( resp'.action \in {"reject", "cancel"} /\ given )
                       => after.notes =
                            ( IF before.notes = Null THEN <<>>
                              ELSE before.notes \o <<"\n\n">> )
                            \o <<C23_Tag[resp'.action]>> \o resp'.reason
                  /\ before.notes # Null
                       => /\ Len(after.notes) >= Len(before.notes)
                          /\ SubSeq(after.notes, 1, Len(before.notes)) = before.notes
        /\ \A b \in DOMAIN booking :
              /\ b \in DOMAIN booking'
              /\ booking'[b].studentId = booking[b].studentId
              /\ booking'[b].tutorId = booking[b].tutorId
              /\ booking'[b].dateTime = booking[b].dateTime
              /\ booking'[b].duration = booking[b].duration ]_vars

\* C23 witness: the seeded booking 4 was cancelled with a reason and kept
\* its notes in front of the tag, and a booking created without notes was
\* rejected with a reason
C23_Witness ==
    /\ resp.op = "updateBookingStatus" /\ resp.code = 200
    /\ resp.action = "cancel" /\ resp.bid = 4 /\ resp.reason = <<"sick">>
    /\ booking[4].notes = <<"Statistics exam preparation", "\n\n",
                            "[CANCELLATION REASON]\n", "sick">>
    /\ 6 \in DOMAIN booking
    /\ booking[6].status = "REJECTED"
    /\ booking[6].notes = <<"[REJECTION REASON]\n", "sick">>

\* C24: with requests processed one at a time, whenever no handler is
\* running, for every tutor with a TutorProfile the stored reviewCount is the
\* count that getTutorReviews sends for the tutor and the stored rating is
\* the avgRating it sends, which is 0 for a tutor without reviews.
C24_Summary(t) ==
    LET rows == {i \in DOMAIN reviews : reviews[i].tutorId = t}
    IN  [count |-> Cardinality(rows),
         avgRating |-> IF rows = {} THEN <<0, 1>>
                       ELSE Div(C10_Sum(rows), Cardinality(rows))]

C24_RatingAgrees ==
    /\ AllIdle
          => \A t \in DOMAIN tutorProfile :
                /\ tutorProfile[t].reviewCount = C24_Summary(t).count
                /\ tutorProfile[t].rating = C24_Summary(t).avgRating
    /\ resp.op = "getTutorReviews"
          => /\ resp.count = C24_Summary(resp.target).count
             /\ resp.avgRating = C24_Summary(resp.target).avgRating

\* the same with the rating compared only for the tutors that have a review
C24_AgreesOnceReviewed ==
    /\ AllIdle
          => \A t \in DOMAIN tutorProfile :
                /\ tutorProfile[t].reviewCount = C24_Summary(t).count
                /\ C24_Summary(t).count > 0
                      => tutorProfile[t].rating = C24_Summary(t).avgRating
    /\ resp.op = "getTutorReviews"
          => /\ resp.count = C24_Summary(resp.target).count
             /\ resp.avgRating = C24_Summary(resp.target).avgRating

\* C25: every review has the studentId and the tutorId of its booking; a
\* createReview request with a valid body for an existing booking, sent by
\* a student who is not the student of the booking, is answered 403, with
\* no review created, no rating changed and no handler left running,
\* whatever the status of the booking and whether it has a review or not.
C25_ReviewOfBooking ==
    /\ [] \A i \in DOMAIN reviews :
            /\ reviews[i].bookingId \in DOMAIN booking
            /\ reviews[i].studentId = booking[reviews[i].bookingId].studentId
            /\ reviews[i].tutorId = booking[reviews[i].bookingId].tutorId
    /\ [][ ( /\ resp = NoResponse /\ resp'.op = "createReview"
             /\ resp'.user \in DOMAIN user /\ role(resp'.user) = "STUDENT"
             /\ resp'.rating[2] = 1 /\ resp'.rating[1] \in 1..5
             /\ resp'.bid \in DOMAIN booking
             /\ booking[resp'.bid].studentId # resp'.user )
           => /\ resp'.code = 403
              /\ resp'.message = "You can only review your own bookings"
              /\ reviews' = reviews /\ tutorProfile' = tutorProfile
              /\ pending' = pending ]_vars

\* C25 witness: a student asked to review a COMPLETED booking of another
\* student that has a review, and got 403
C25_Witness ==
    /\ resp.op = "createReview" /\ resp.code = 403
    /\ resp.message = "You can only review your own bookings"
    /\ resp.bid \in DOMAIN booking
    /\ role(resp.user) = "STUDENT"
    /\ booking[resp.bid].studentId # resp.user
    /\ booking[resp.bid].status = "COMPLETED"
    /\ reviewOf(resp.bid) # {}

\* C26: the student of every booking is a user with role STUDENT, its tutor
\* is a user with role TUTOR who has a TutorProfile, and the two differ;
\* and for no booking is there a user whom updateBookingStatus would let
\* approve it and createReview would take as its student: one of the two
\* answers that user 403.
C26_BookingRoles ==
    \A b \in DOMAIN booking :
        /\ booking[b].studentId \in DOMAIN user
        /\ user[booking[b].studentId].role = "STUDENT"
        /\ booking[b].tutorId \in DOMAIN user
        /\ user[booking[b].tutorId].role = "TUTOR"
        /\ booking[b].tutorId \in DOMAIN tutorProfile
        /\ booking[b].studentId # booking[b].tutorId
        /\ \A u \in DOMAIN user :
              \/ statusSwitch(booking[b], u, "approve", Null, now).code = 403
              \/ createReviewCode(u, b, <<5, 1>>).code = 403

\* C26 witness: a student has booked a tutor who registered and created a
\* profile here, after a request to book a user who is no tutor was refused
C26_Witness ==
    /\ resp.op = "createBooking" /\ resp.code = 201
    /\ resp.bid \in DOMAIN booking /\ resp.bid > 5
    /\ booking[resp.bid].tutorId = "user9"
    /\ role(booking[resp.bid].studentId) = "STUDENT"

\* C27: in every response of getStats to an administrator the four counts
\* of bookingsByStatus (pending, confirmed, completed, cancelled) add up to
\* totalBookings, and getAllBookings answers an administrator 200 for each
\* of the five booking statuses as its status filter, sending the bookings
\* that have the status.
C27_FiveStatuses == {"PENDING", "CONFIRMED", "REJECTED", "CANCELLED", "COMPLETED"}

C27_StatsComplete ==
    /\ ( resp.op = "getStats" /\ resp.code = 200 )
          => resp.stats.bookingsByStatus.pending + resp.stats.bookingsByStatus.confirmed
             + resp.stats.bookingsByStatus.completed
             + resp.stats.bookingsByStatus.cancelled
             = resp.stats.totalBookings
    /\ ( /\ resp.op = "getAllBookings"
         /\ resp.user \in DOMAIN user /\ role(resp.user) = "ADMIN"
         /\ resp.action \in C27_FiveStatuses )
          => /\ resp.code = 200
             /\ resp.bookings = {b \in DOMAIN booking : booking[b].status = resp.action}

\* what holds instead: the four counts and the number of REJECTED bookings
\* add up to totalBookings, which is the number of bookings, and the filter
\* is answered 200 for CONFIRMED, COMPLETED and CANCELLED and 400 for
\* PENDING and REJECTED
C27_StatsButRejected ==
    /\ ( resp.op = "getStats" /\ resp.code = 200 )
          => /\ resp.stats.bookingsByStatus.pending
                + resp.stats.bookingsByStatus.confirmed
                + resp.stats.bookingsByStatus.completed
                + resp.stats.bookingsByStatus.cancelled
                + Cardinality({b \in DOMAIN booking : booking[b].status = "REJECTED"})
                = resp.stats.totalBookings
             /\ resp.stats.totalBookings = Cardinality(DOMAIN booking)
    /\ ( /\ resp.op = "getAllBookings"
         /\ resp.user \in DOMAIN user /\ role(resp.user) = "ADMIN"
         /\ resp.action \in C27_FiveStatuses )
          => IF resp.action \in {"PENDING", "REJECTED"}
             THEN resp.code = 400 /\ resp.bookings = {}
             ELSE /\ resp.code = 200
                  /\ resp.bookings =
                        {b \in DOMAIN booking : booking[b].status = resp.action}

\* C28: with requests processed one at a time, an administrator's
\* deleteCategory for an existing category is answered 400 and leaves the
\* categories and their links as they are when a tutor profile is linked
\* to the category, and is answered 200 and removes that category alone
\* when none is; a category disappears only in this way, with no profile
\* linked to it; the categories a profile is linked to change only by an
\* updateProfile of that tutor; and every link is the link of an existing
\* TutorProfile to an existing category.
C28_DeleteUnlinked ==
    /\ [] \A c \in DOMAIN category : category[c].tutors \subseteq DOMAIN tutorProfile
    /\ [][ /\ ( /\ resp = NoResponse /\ resp'.op = "deleteCategory"
                 /\ resp'.user \in DOMAIN user /\ role(resp'.user) = "ADMIN"
                 /\ resp'.bid \in DOMAIN category )
               => IF category[resp'.bid].tutors # {}
                  THEN resp'.code = 400 /\ category' = category
                  ELSE /\ resp'.code = 200
                       /\ DOMAIN category' = DOMAIN category \ {resp'.bid}
                       /\ \A c \in DOMAIN category' : category'[c] = category[c]
           /\ \A c \in DOMAIN category \ DOMAIN category' :
                 /\ category[c].tutors = {}
                 /\ resp'.op = "deleteCategory" /\ resp'.code = 200
                 /\ resp'.bid = c
           /\ \A t \in DOMAIN tutorProfile :
                 linkedCategories(t)' # linkedCategories(t)
                    => /\ resp'.op = "tutorUpdateProfile" /\ resp'.code = 200
                       /\ resp'.user = t ]_vars

\* C28 witness: a tutor linked the profile to a category that had no tutor,
\* and the administrator's request to delete that category got 400
C28_Witness ==
    /\ resp.op = "deleteCategory" /\ resp.code = 400
    /\ resp.user = "admin" /\ resp.bid = 2
    /\ 2 \in DOMAIN category
    /\ category[2].tutors = {"tutor1"}
====
